---- MODULE Spec2Model ----
(***************************************************************************)
(* The pool cache of src/uniswap/pool-cache.service.ts (PoolCacheService): *)
(* the in-memory entry per strategy tier, the tier refresh with its two    *)
(* sequential source queries raced against 15-second timers, the fan-out   *)
(* refresh of all tiers, and the two read-through getters.                 *)
(*                                                                         *)
(* Every action is one synchronous run of JavaScript between two awaits:   *)
(* the single-threaded event loop never interleaves inside such a run.     *)
(* Time is the value of Date.now() in milliseconds.                        *)
(***************************************************************************)
EXTENDS Integers, Sequences, FiniteSets, TLC

VARIABLES
    now,          \* Date.now()
    source,       \* the upstream: how the v3 and the v4 subgraph answer a query now
    ops,          \* number of outside events so far (bounds the run)
    cachedPools,  \* PoolCacheService.cachedPools: tier -> entry
    refresh,      \* the running refreshStrategyPools invocations, by slot
    call,         \* the running getCachedPoolsByStrategy/getAverageAprByStrategy calls
    job,          \* the refreshPoolCache invocations
    lastStored,   \* history: per tier, the pool list computed by the last refresh that stored
    populated,    \* history: per tier, whether a non-empty entry was ever stored
    input,        \* the arguments of the pure function under study
    output        \* what it returned

\* The variables of the pool cache service.
serviceVars == <<now, source, ops, cachedPools, refresh, call, job, lastStored, populated>>

vars == <<now, source, ops, cachedPools, refresh, call, job, lastStored, populated,
          input, output>>

-----------------------------------------------------------------------------
(* Program constants *)

QueryTimeoutMs == 15000

FreshnessWindowMs == 21600000

strategies == <<"low", "medium", "high">>

StrategyKey == {strategies[i] : i \in 1..Len(strategies)}

-----------------------------------------------------------------------------
(* Bounds of the model *)

NumCalls == 1

\* Outside events over a run, after the refresh of onModuleInit: scheduled or
\* manual refreshes, getter calls, quiet freshness windows, upstream changes.
MaxOps == 2

\* Date.now() when the process starts: any real clock is past the first
\* window, so the entries of construction (new Date(0)) are stale.
StartTime == FreshnessWindowMs

CallIds == 1..NumCalls

\* Refresh slots: 1..3 are the three refreshes of refreshPoolCache (one per
\* tier, in the order of `strategies`), 3 + c is the read-through refresh of call c.
CallSlot(c) == Len(strategies) + c

JobSlots == 1..Len(strategies)

RefreshIds == 1..(Len(strategies) + NumCalls)

-----------------------------------------------------------------------------
(* Pools and upstream results *)

\* apr: number | null.  Computed APRs are never negative, so -1 stands for null.
NullApr == -1

PoolA == [id |-> "A", apr |-> 10]

PoolB == [id |-> "B", apr |-> NullApr]

PoolC == [id |-> "C", apr |-> 25]

\* What the getBestPoolsWithScore query of each protocol version resolves to
\* when it succeeds: the two lists share a pool.
SourceResult(version) ==
    IF version = 3 THEN <<PoolA, PoolB>> ELSE <<PoolB, PoolC>>

Versions == {3, 4}

\* A subgraph answers a query with its pools ("ok"), rejects it ("error"),
\* or does not answer at all ("hang").
SourceStates == {"ok", "error", "hang"}

\* How a query ends by itself when its source answers: it resolves to the
\* list, or it rejects.
QueryOutcome(version, state) ==
    IF state = "ok"
    THEN [kind |-> "ok", pools |-> SourceResult(version)]
    ELSE [kind |-> "error", pools |-> <<>>]

TimeoutOutcome == [kind |-> "timeout", pools |-> <<>>]

NoOutcome == [kind |-> "none", pools |-> <<>>]

-----------------------------------------------------------------------------
(* Pure helpers *)

RECURSIVE GCD(_, _)
GCD(a, b) == IF b = 0 THEN a ELSE GCD(b, a % b)

\* The quotient n / d of two naturals (d > 0) as a reduced fraction.
Quotient(n, d) ==
    LET g == GCD(n, d) IN [num |-> n \div g, den |-> d \div g]

RECURSIVE SumSeq(_)
SumSeq(xs) == IF xs = <<>> THEN 0 ELSE Head(xs) + SumSeq(Tail(xs))

RECURSIVE FilterNonNull(_)
FilterNonNull(xs) ==
    IF xs = <<>> THEN <<>>
    ELSE IF Head(xs) # NullApr
         THEN <<Head(xs)>> \o FilterNonNull(Tail(xs))
         ELSE FilterNonNull(Tail(xs))

\* validAprs of refreshStrategyPools
ValidAprs(pools) == FilterNonNull([i \in 1..Len(pools) |-> pools[i].apr])

\* averageApr of refreshStrategyPools
AverageApr(pools) ==
    LET validAprs == ValidAprs(pools) IN
    IF Len(validAprs) > 0
    THEN Quotient(SumSeq(validAprs), Len(validAprs))
    ELSE Quotient(0, 1)

\* Mutant: the v4 pools already present in the v3 list are dropped.
CombineDeduplicated(v3Pools, v4Pools) ==
    v3Pools \o SelectSeq(v4Pools,
                         LAMBDA p : \A i \in 1..Len(v3Pools) : v3Pools[i].id # p.id)

\* const pools = [...v3Pools, ...v4Pools]
Combine(v3Pools, v4Pools) == v3Pools \o v4Pools

\* The entry every tier holds after construction.
EmptyEntry == [pools |-> <<>>, averageApr |-> Quotient(0, 1), timestamp |-> 0]

\* Mutant: the refresh appends to the pool list the entry already holds.
StoreEntryMerging(cache, s, entry) ==
    [cache EXCEPT ![s] = [entry EXCEPT !.pools = cache[s].pools \o entry.pools]]

\* this.cachedPools[strategy] = { pools, averageApr, timestamp }
StoreEntry(cache, s, entry) == [cache EXCEPT ![s] = entry]

\* Mutant: the comparison with sixHoursAgo is the wrong way round.
IsFreshInverted(entry, t) == entry.timestamp < t - FreshnessWindowMs

\* cacheEntry.timestamp > sixHoursAgo
IsFresh(entry, t) == entry.timestamp > t - FreshnessWindowMs

\* The condition under which each getter answers from the entry it read.
ServesFromCache(op, entry, t) ==
    IF op = "pools"
    THEN Len(entry.pools) > 0 /\ IsFresh(entry, t)
    ELSE IsFresh(entry, t)

\* The field of an entry that each getter returns.
Field(op, entry) == IF op = "pools" THEN entry.pools ELSE entry.averageApr

\* Mutant: the read-through refreshes the first tier whatever tier was asked for.
RefreshTargetFirst(s) == strategies[1]

\* The tier a read-through hands to refreshStrategyPools.
RefreshTarget(s) == s

\* Mutant: after the refresh the getter answers from the entry it read first.
ReturnEntryLocal(cacheEntry, current) == cacheEntry

\* After the refresh the getter reads this.cachedPools[strategy] again.
ReturnEntry(cacheEntry, current) == current

\* The race ended in the catch block: the query rejected or the timer won.
SourceFailed(o) == o.kind \in {"error", "timeout"}

\* Mutant: a failed or timed-out race is not caught around the query.
SourceCatchRethrow(o) ==
    [pools |-> IF o.kind = "ok" THEN o.pools ELSE <<>>, thrown |-> o.kind # "ok"]

\* try { vNPools = await Promise.race([query, timeoutPromise]) } catch { warn }:
\* the list the local keeps, and whether an error leaves the inner try.
SourceCatch(o) ==
    [pools |-> IF o.kind = "ok" THEN o.pools ELSE <<>>, thrown |-> FALSE]

\* seq and late are history: the place of the refresh in the order of the
\* calls of refreshStrategyPools among the refreshes that have not been
\* taken by their callers, and the versions whose query settled after its
\* timer had won the race.
IdleRefresh ==
    [pc |-> "idle", strategy |-> strategies[1], qStart |-> 0,
     started4 |-> FALSE, out3 |-> NoOutcome, out4 |-> NoOutcome,
     v3Pools |-> <<>>, stored |-> FALSE, seq |-> 0, late |-> {}]

\* Mutant: both source queries are issued when the refresh starts.
NewRefreshParallel(s, t) ==
    [IdleRefresh EXCEPT !.pc = "awaitV3", !.strategy = s, !.qStart = t,
                        !.started4 = TRUE]

\* refreshStrategyPools up to its first await: the v3 query is issued and its
\* timer armed; the v4 query is not issued yet.
NewRefresh(s, t) ==
    [IdleRefresh EXCEPT !.pc = "awaitV3", !.strategy = s, !.qStart = t]

\* The instant the timer of the race the refresh is waiting in expires.
Deadline(r) == r.qStart + QueryTimeoutMs

\* Mutant: the timer is never armed.
TimerDueNever(r, t) == FALSE

\* setTimeout(reject, 15000) of the race the refresh is waiting in has expired.
TimerDue(r, t) ==
    /\ r.pc \in {"awaitV3", "awaitV4"}
    /\ t >= Deadline(r)

IdleCall ==
    [pc |-> "idle", op |-> "pools", strategy |-> strategies[1], t0 |-> 0,
     cacheEntry |-> EmptyEntry, refreshes |-> 0, entry |-> EmptyEntry,
     result |-> <<>>]

-----------------------------------------------------------------------------
(* Initial state *)

\* No pure function is under study.
NoValue == [fn |-> "none"]

\* The service as constructed, nothing started yet.
Constructed ==
    /\ now = StartTime
    /\ ops = 0
    /\ cachedPools = [s \in StrategyKey |-> EmptyEntry]
    /\ refresh = [r \in RefreshIds |-> IdleRefresh]
    /\ call = [c \in CallIds |-> IdleCall]
    /\ job = [pc |-> "idle", booted |-> FALSE]
    /\ lastStored = [s \in StrategyKey |-> <<>>]
    /\ populated = [s \in StrategyKey |-> FALSE]

\* No pure function is applied in the runs of the service.
NothingUnderStudy == input = NoValue /\ output = NoValue

\* The process starts with both subgraphs answering.
Init == Constructed /\ NothingUnderStudy /\ source = [v \in Versions |-> "ok"]

\* The process starts with the subgraphs in any condition.
InitAnyUpstream ==
    Constructed /\ NothingUnderStudy /\ source \in [Versions -> SourceStates]

-----------------------------------------------------------------------------
(* Actions *)

\* The place in the order of calls of a refresh of tier s that starts now:
\* after every refresh of the tier that has started and has not been taken
\* by its caller.
NextSeq(s) ==
    LET ofTier == {r \in RefreshIds :
                      refresh[r].pc # "idle" /\ refresh[r].strategy = s}
    IN 1 + (CHOOSE n \in 0..Len(strategies) + NumCalls :
               /\ \A r \in ofTier : refresh[r].seq <= n
               /\ n = 0 \/ \E r \in ofTier : refresh[r].seq = n)

\* refreshPoolCache up to its await: all three refreshStrategyPools are
\* started in the same synchronous run.
RefreshPoolCacheStart ==
    /\ job.pc = "idle"
    /\ job' = [job EXCEPT !.pc = "awaiting"]
    /\ refresh' = [r \in RefreshIds |->
                     IF r \in JobSlots
                     THEN [NewRefresh(strategies[r], now)
                               EXCEPT !.seq = NextSeq(strategies[r])]
                     ELSE refresh[r]]
    /\ UNCHANGED <<now, source, cachedPools, call, lastStored, populated, input, output>>

\* The refresh the application awaits at startup, before it serves anything.
onModuleInit ==
    /\ ~job.booted
    /\ RefreshPoolCacheStart
    /\ UNCHANGED ops

\* The refresh of the 6-hour cron job (or of a manual trigger).
scheduledRefresh ==
    /\ job.booted
    /\ ops < MaxOps
    /\ ops' = ops + 1
    /\ RefreshPoolCacheStart

\* await Promise.all(...) resumes once the three refreshes have resolved.
RefreshPoolCacheReturn ==
    /\ job.pc = "awaiting"
    /\ \A r \in JobSlots : refresh[r].pc = "done"
    /\ job' = [pc |-> "idle", booted |-> TRUE]
    /\ refresh' = [r \in RefreshIds |->
                     IF r \in JobSlots THEN IdleRefresh ELSE refresh[r]]
    /\ UNCHANGED <<now, source, ops, cachedPools, call, lastStored, populated,
                 input, output>>

\* The v3 race settles with outcome o; the refresh goes on to issue the v4
\* query.  An error that left the inner try would end in the outer catch.
SettleV3(r, o) ==
    /\ refresh[r].pc = "awaitV3"
    /\ LET c == SourceCatch(o) IN
       refresh' = [refresh EXCEPT ![r] =
           IF c.thrown
           THEN [@ EXCEPT !.pc = "done", !.out3 = o, !.qStart = 0]
           ELSE [@ EXCEPT !.pc = "awaitV4", !.out3 = o, !.v3Pools = c.pools,
                          !.started4 = TRUE, !.qStart = now]]
    /\ UNCHANGED <<now, source, ops, cachedPools, call, job, lastStored, populated,
                 input, output>>

\* The v4 race settles with outcome o; in the same run the lists are
\* combined, the average is computed and the entry is stored.
SettleV4(r, o) ==
    /\ refresh[r].pc = "awaitV4"
    /\ LET c == SourceCatch(o)
           s == refresh[r].strategy
           pools == Combine(refresh[r].v3Pools, c.pools)
           entry == [pools |-> pools, averageApr |-> AverageApr(pools),
                     timestamp |-> now]
       IN IF c.thrown
          THEN /\ refresh' = [refresh EXCEPT ![r] =
                                 [@ EXCEPT !.pc = "done", !.out4 = o,
                                           !.qStart = 0, !.v3Pools = <<>>]]
               /\ UNCHANGED <<cachedPools, lastStored, populated>>
          ELSE /\ cachedPools' = StoreEntry(cachedPools, s, entry)
               /\ lastStored' = [lastStored EXCEPT ![s] = pools]
               /\ populated' = [populated EXCEPT ![s] = @ \/ pools # <<>>]
               /\ refresh' = [refresh EXCEPT ![r] =
                                 [@ EXCEPT !.pc = "done", !.out4 = o,
                                           !.qStart = 0, !.v3Pools = <<>>,
                                           !.stored = TRUE]]
    /\ UNCHANGED <<now, source, ops, call, job, input, output>>

\* getBestPoolsWithScore(network, opts, 3) resolves or rejects and wins the race.
V3Returns(r) ==
    /\ source[3] # "hang"
    /\ SettleV3(r, QueryOutcome(3, source[3]))

\* The 15-second timer wins the v3 race.
V3TimesOut(r) ==
    /\ source[3] = "hang"
    /\ TimerDue(refresh[r], now)
    /\ SettleV3(r, TimeoutOutcome)

\* getBestPoolsWithScore(network, opts, 4) resolves or rejects and wins the race.
V4Returns(r) ==
    /\ source[4] # "hang"
    /\ SettleV4(r, QueryOutcome(4, source[4]))

\* The 15-second timer wins the v4 race.
V4TimesOut(r) ==
    /\ source[4] = "hang"
    /\ TimerDue(refresh[r], now)
    /\ SettleV4(r, TimeoutOutcome)

\* Mutant: a query that settles after its timer won still assigns its list
\* to the local the refresh keeps.
LateSettlementAssigning(rec, version, o) ==
    [rec EXCEPT !.late = @ \cup {version},
                !.v3Pools = IF version = 3 /\ rec.pc = "awaitV4"
                            THEN SourceCatch(o).pools ELSE @]

\* Promise.race([query, timeoutPromise]) took the rejection of the timer,
\* the first to settle; the settlement o of the query that comes later has
\* no continuation in the refresh.
LateSettlement(rec, version, o) == [rec EXCEPT !.late = @ \cup {version}]

\* The query of a source whose timer won the race of refresh r settles
\* after all.
LateResult(r, version) ==
    /\ refresh[r].pc \in {"awaitV4", "done"}
    /\ (IF version = 3 THEN refresh[r].out3 ELSE refresh[r].out4) = TimeoutOutcome
    /\ version \notin refresh[r].late
    /\ source[version] # "hang"
    /\ refresh' = [refresh EXCEPT ![r] =
                     LateSettlement(@, version,
                                    QueryOutcome(version, source[version]))]
    /\ UNCHANGED <<now, source, ops, cachedPools, call, job, lastStored, populated,
                 input, output>>

\* A getter up to its return or its first await.  Getters are called once
\* the service serves, that is after the refresh of onModuleInit.  A call
\* takes the lowest free call record (which record holds it is immaterial).
ReadThrough(c, op, s) ==
    /\ job.booted
    /\ ops < MaxOps
    /\ ops' = ops + 1
    /\ call[c].pc = "idle"
    /\ \A d \in CallIds : d < c => call[d].pc # "idle"
    /\ LET cacheEntry == cachedPools[s] IN
       IF ServesFromCache(op, cacheEntry, now)
       THEN /\ call' = [call EXCEPT ![c] =
                          [pc |-> "returned", op |-> op, strategy |-> s,
                           t0 |-> now, cacheEntry |-> cacheEntry,
                           refreshes |-> 0, entry |-> cacheEntry,
                           result |-> Field(op, cacheEntry)]]
            /\ UNCHANGED refresh
       ELSE /\ call' = [call EXCEPT ![c] =
                          [pc |-> "awaiting", op |-> op, strategy |-> s,
                           t0 |-> now, cacheEntry |-> cacheEntry,
                           refreshes |-> 1, entry |-> cacheEntry,
                           result |-> Field(op, EmptyEntry)]]
            /\ refresh' = [refresh EXCEPT ![CallSlot(c)] =
                             [NewRefresh(RefreshTarget(s), now)
                                 EXCEPT !.seq = NextSeq(RefreshTarget(s))]]
    /\ UNCHANGED <<now, source, cachedPools, job, lastStored, populated, input, output>>

getCachedPoolsByStrategy(c) == \E s \in StrategyKey : ReadThrough(c, "pools", s)

getAverageAprByStrategy(c) == \E s \in StrategyKey : ReadThrough(c, "apr", s)

\* await this.refreshStrategyPools(strategy) resumes; the getter returns.
ReadThroughReturn(c) ==
    /\ call[c].pc = "awaiting"
    /\ refresh[CallSlot(c)].pc = "done"
    /\ LET entry == ReturnEntry(call[c].cacheEntry, cachedPools[call[c].strategy])
       IN call' = [call EXCEPT ![c] =
                     [@ EXCEPT !.pc = "returned", !.entry = entry,
                               !.result = Field(call[c].op, entry)]]
    /\ UNCHANGED <<now, source, ops, cachedPools, refresh, job, lastStored, populated,
                 input, output>>

\* The caller takes the value the getter returned.
Resume(c) ==
    /\ call[c].pc = "returned"
    /\ call' = [call EXCEPT ![c] = IdleCall]
    /\ refresh' = [refresh EXCEPT ![CallSlot(c)] = IdleRefresh]
    /\ UNCHANGED <<now, source, ops, cachedPools, job, lastStored, populated,
                 input, output>>

\* A returned value is taken by its caller in the run of the event loop that
\* follows the return: nothing else is scheduled in between.
NoneReturned == \A c \in CallIds : call[c].pc # "returned"

\* Some race is being awaited.
RacePending == \E r \in RefreshIds : refresh[r].pc \in {"awaitV3", "awaitV4"}

\* 15 seconds pass while a race is awaited.  A race whose deadline has come
\* is settled before more time passes.
TimerTick ==
    /\ RacePending
    /\ \A r \in RefreshIds :
          refresh[r].pc \in {"awaitV3", "awaitV4"} => now < Deadline(refresh[r])
    /\ now' = now + QueryTimeoutMs
    /\ UNCHANGED <<source, ops, cachedPools, refresh, call, job, lastStored, populated,
                 input, output>>

\* The length of a quiet period: just over the freshness window.
QuietPeriod == FreshnessWindowMs + QueryTimeoutMs

\* A quiet period passes while nothing is in flight.
WindowTick ==
    /\ ~RacePending
    /\ ops < MaxOps
    /\ ops' = ops + 1
    /\ now' = now + QuietPeriod
    /\ UNCHANGED <<source, cachedPools, refresh, call, job, lastStored, populated,
                 input, output>>

\* The upstream starts to answer differently.
SourceChange ==
    /\ ops < MaxOps
    /\ ops' = ops + 1
    /\ \E st \in [Versions -> SourceStates] : st # source /\ source' = st
    /\ UNCHANGED <<now, cachedPools, refresh, call, job, lastStored, populated,
                 input, output>>

\* The upstream changes between refreshes.
UpstreamChanges == ~RacePending /\ SourceChange

\* One of the subgraphs changes while queries are in flight.
UpstreamChangesInFlight ==
    /\ RacePending
    /\ ops < MaxOps
    /\ ops' = ops + 1
    /\ \E v \in Versions, st \in SourceStates :
          st # source[v] /\ source' = [source EXCEPT ![v] = st]
    /\ UNCHANGED <<now, cachedPools, refresh, call, job, lastStored, populated,
                 input, output>>

\* The steps of the refreshes themselves.
RefreshSteps ==
    \/ \E r \in RefreshIds : NoneReturned /\ V3Returns(r)
    \/ \E r \in RefreshIds : NoneReturned /\ V3TimesOut(r)
    \/ \E r \in RefreshIds : NoneReturned /\ V4Returns(r)
    \/ \E r \in RefreshIds : NoneReturned /\ V4TimesOut(r)
    \/ NoneReturned /\ TimerTick

Next ==
    \/ onModuleInit
    \/ NoneReturned /\ scheduledRefresh
    \/ NoneReturned /\ RefreshPoolCacheReturn
    \/ RefreshSteps
    \/ \E c \in CallIds : NoneReturned /\ getCachedPoolsByStrategy(c)
    \/ \E c \in CallIds : NoneReturned /\ getAverageAprByStrategy(c)
    \/ \E c \in CallIds : NoneReturned /\ ReadThroughReturn(c)
    \/ \E c \in CallIds : Resume(c)
    \/ NoneReturned /\ WindowTick
    \/ NoneReturned /\ UpstreamChanges

Spec == Init /\ [][Next]_vars

\* refreshPoolCache alone (startup, then scheduled or manual runs), with an
\* upstream that may change while the queries of a run are in flight.
NextRefresh ==
    \/ onModuleInit
    \/ scheduledRefresh
    \/ RefreshPoolCacheReturn
    \/ RefreshSteps
    \/ UpstreamChanges
    \/ UpstreamChangesInFlight

RefreshSpec == Init /\ [][NextRefresh]_vars

\* The startup refresh and the read-through refreshes of
\* getCachedPoolsByStrategy, under every condition of the upstream.
NextLive ==
    \/ onModuleInit
    \/ NoneReturned /\ RefreshPoolCacheReturn
    \/ RefreshSteps
    \/ \E c \in CallIds : NoneReturned /\ getCachedPoolsByStrategy(c)
    \/ \E c \in CallIds : NoneReturned /\ ReadThroughReturn(c)
    \/ \E c \in CallIds : Resume(c)

\* The event loop runs what is due: a settled race continues its refresh, a
\* timer that has expired fires, time passes, and a caller takes the value
\* returned to it.
LiveSpec ==
    /\ InitAnyUpstream
    /\ [][NextLive]_vars
    /\ WF_vars(RefreshSteps)
    /\ WF_vars(\E c \in CallIds : Resume(c))

\* The service under concurrent use: the startup refresh under every
\* condition of the upstream, then scheduled refreshes and read-throughs
\* that overlap.
NextConcurrent ==
    \/ onModuleInit
    \/ NoneReturned /\ scheduledRefresh
    \/ NoneReturned /\ RefreshPoolCacheReturn
    \/ RefreshSteps
    \/ \E c \in CallIds : NoneReturned /\ getCachedPoolsByStrategy(c)
    \/ \E c \in CallIds : NoneReturned /\ getAverageAprByStrategy(c)
    \/ \E c \in CallIds : NoneReturned /\ ReadThroughReturn(c)
    \/ \E c \in CallIds : Resume(c)

ConcurrentSpec == InitAnyUpstream /\ [][NextConcurrent]_vars

\* refreshPoolCache with an upstream that changes, also while queries are
\* in flight, and queries that settle after their timers have fired.
NextLate ==
    \/ NextRefresh
    \/ \E r \in RefreshIds, v \in Versions : LateResult(r, v)

LateSpec == Init /\ [][NextLate]_vars

-----------------------------------------------------------------------------
(* getPoolSummary in normal mode, followed for one tier: the averageApr the  *)
(* await of getAllStrategyAprs brings, then the pools the await of           *)
(* Promise.all([getCachedPoolsByStrategy ...]) brings.  The summary under    *)
(* construction is kept in `output`.                                         *)

\* getPoolSummary after getAllStrategyAprs has resolved: result[strategy] of
\* the getAverageAprByStrategy call is kept as aprs[strategy].  aprEntry is
\* history: the entry the getter answered from.
getAllStrategyAprs(c) ==
    /\ call[c].pc = "returned"
    /\ call[c].op = "apr"
    /\ output = NoValue
    /\ output' = [fn |-> "getPoolSummary", pc |-> "pools",
                  strategy |-> call[c].strategy,
                  averageApr |-> call[c].result, aprEntry |-> call[c].entry,
                  poolCount |-> 0, topPools |-> <<>>, poolsEntry |-> EmptyEntry]
    /\ call' = [call EXCEPT ![c] = IdleCall]
    /\ refresh' = [refresh EXCEPT ![CallSlot(c)] = IdleRefresh]
    /\ UNCHANGED <<now, source, ops, cachedPools, job, lastStored, populated, input>>

\* getPoolSummary after getCachedPoolsByStrategy of the tier has resolved:
\* poolCount and topPools (topN = 5) are computed from the array returned.
\* poolsEntry is history: the entry the getter answered from.
getPoolSummary(c) ==
    /\ call[c].pc = "returned"
    /\ call[c].op = "pools"
    /\ output # NoValue
    /\ output.pc = "pools"
    /\ output.strategy = call[c].strategy
    /\ LET pools == call[c].result
           RECURSIVE SortByApr(_, _)
           SortByApr(sorted, rest) ==
               IF rest = <<>> THEN sorted
               ELSE LET x == Head(rest)
                        before == {i \in 1..Len(sorted) : sorted[i].apr >= x.apr}
                    IN SortByApr(SubSeq(sorted, 1, Cardinality(before)) \o <<x>>
                                     \o SubSeq(sorted, Cardinality(before) + 1,
                                               Len(sorted)),
                                 Tail(rest))
           valid == SelectSeq(pools, LAMBDA p : p.apr # NullApr)
           sorted == SortByApr(<<>>, valid)
       IN output' = [output EXCEPT
                        !.pc = "done",
                        !.poolCount = Len(pools),
                        !.topPools = SubSeq(sorted, 1,
                                            IF Len(sorted) < 5 THEN Len(sorted) ELSE 5),
                        !.poolsEntry = call[c].entry]
    /\ call' = [call EXCEPT ![c] = IdleCall]
    /\ refresh' = [refresh EXCEPT ![CallSlot(c)] = IdleRefresh]
    /\ UNCHANGED <<now, source, ops, cachedPools, job, lastStored, populated, input>>

\* Subgraphs that were failing or silent answer again.
UpstreamRecovers ==
    /\ \E v \in Versions : source[v] # "ok"
    /\ source' = [v \in Versions |-> "ok"]
    /\ UNCHANGED <<now, ops, cachedPools, refresh, call, job, lastStored, populated,
                 input, output>>

\* The service serving getPoolSummary and plain getter calls after the
\* startup refresh, under every condition of the upstream.
NextSummary ==
    \/ onModuleInit
    \/ NoneReturned /\ RefreshPoolCacheReturn
    \/ RefreshSteps
    \/ \E c \in CallIds : NoneReturned /\ getCachedPoolsByStrategy(c)
    \/ \E c \in CallIds : NoneReturned /\ getAverageAprByStrategy(c)
    \/ \E c \in CallIds : NoneReturned /\ ReadThroughReturn(c)
    \/ \E c \in CallIds : Resume(c)
    \/ \E c \in CallIds : getAllStrategyAprs(c)
    \/ \E c \in CallIds : getPoolSummary(c)
    \/ NoneReturned /\ UpstreamRecovers

SummarySpec == InitAnyUpstream /\ [][NextSummary]_vars

-----------------------------------------------------------------------------
(* getTopPoolsByStrategy and its demo mode *)

\* minApr and maxApr of the switch on the strategy.
DemoAprRange(strategy) ==
    IF strategy = "low" THEN [min |-> 15, max |-> 25]
    ELSE IF strategy = "medium" THEN [min |-> 25, max |-> 50]
    ELSE [min |-> 50, max |-> 120]

\* Math.pow(index / n, 0.7) in thousandths, for the lists of up to 4 pools
\* the model holds.
Pow07(index, n) ==
    IF index = 0 THEN 0
    ELSE IF 4 * index = n THEN 379
    ELSE IF 3 * index = n THEN 463
    ELSE IF 2 * index = n THEN 616
    ELSE IF 3 * index = 2 * n THEN 753
    ELSE IF 4 * index = 3 * n THEN 818
    ELSE 1000

\* The draws of Math.random() * 5 - 2.5 the model explores, one per call.
DemoNoise == {-2, 2}

Clamp(lo, hi, x) == IF x < lo THEN lo ELSE IF x > hi THEN hi ELSE x

\* The apr the forEach assigns to the pool at `index` (0-based) of n pools,
\* kept to whole percent.
DemoApr(strategy, index, n, noise) ==
    LET range == DemoAprRange(strategy)
        aprSpread == range.max - range.min
    IN Clamp(range.min, range.max,
             range.max - (aprSpread * Pow07(index, n)) \div 1000 + noise)

\* What the forEach over [...allPools] leaves in the pool objects, which are
\* the objects of the array it was given.
EnhancedInPlace(pools, strategy, noise) ==
    [i \in 1..Len(pools) |->
        [pools[i] EXCEPT !.apr = DemoApr(strategy, i - 1, Len(pools), noise)]]

\* getTopPoolsByStrategy after its await of getCachedPoolsByStrategy: in demo
\* mode the forEach writes pool.apr, and the array it was given is the one
\* the tier's entry holds.
getTopPoolsByStrategy(c, isDemoMode) ==
    /\ call[c].pc = "returned"
    /\ call[c].op = "pools"
    /\ call' = [call EXCEPT ![c] = IdleCall]
    /\ refresh' = [refresh EXCEPT ![CallSlot(c)] = IdleRefresh]
    /\ LET s == call[c].strategy IN
       IF isDemoMode
       THEN \E noise \in DemoNoise :
               cachedPools' = [cachedPools EXCEPT ![s].pools =
                                  EnhancedInPlace(@, s, noise)]
       ELSE UNCHANGED cachedPools
    /\ UNCHANGED <<now, source, ops, job, lastStored, populated, input, output>>

\* The service serving: the startup refresh, then the two
\* getters called directly or from getTopPoolsByStrategy, in normal mode and
\* in demo mode, under every condition of the upstream.
NextServing ==
    \/ onModuleInit
    \/ NoneReturned /\ RefreshPoolCacheReturn
    \/ RefreshSteps
    \/ \E c \in CallIds : NoneReturned /\ getCachedPoolsByStrategy(c)
    \/ \E c \in CallIds : NoneReturned /\ getAverageAprByStrategy(c)
    \/ \E c \in CallIds : NoneReturned /\ ReadThroughReturn(c)
    \/ \E c \in CallIds : Resume(c)
    \/ \E c \in CallIds : getTopPoolsByStrategy(c, FALSE)
    \/ \E c \in CallIds : getTopPoolsByStrategy(c, TRUE)

ServingSpec == InitAnyUpstream /\ [][NextServing]_vars

-----------------------------------------------------------------------------
(* Exact arithmetic: the numbers of the analytics are rationals, kept as      *)
(* reduced fractions num / den with den > 0.  Floating-point rounding is not  *)
(* modelled.                                                                  *)

Abs(x) == IF x < 0 THEN -x ELSE x

\* n / d for integers n and d, d # 0.
Ratio(n, d) ==
    LET g == GCD(Abs(n), Abs(d))
        sign == IF d < 0 THEN -1 ELSE 1
    IN [num |-> sign * (n \div g), den |-> Abs(d) \div g]

RAdd(a, b) == Ratio(a.num * b.den + b.num * a.den, a.den * b.den)

RSub(a, b) == Ratio(a.num * b.den - b.num * a.den, a.den * b.den)

RMul(a, b) == Ratio(a.num * b.num, a.den * b.den)

\* a / b for b # 0.
RDiv(a, b) == Ratio(a.num * b.den, a.den * b.num)

RLess(a, b) == a.num * b.den < b.num * a.den

RLeq(a, b) == a.num * b.den <= b.num * a.den

RInt(n) == [num |-> n, den |-> 1]

RECURSIVE RSum(_)
RSum(xs) == IF xs = <<>> THEN RInt(0) ELSE RAdd(Head(xs), RSum(Tail(xs)))

\* xs.reduce((a, b) => a + b, 0) / xs.length
RMean(xs) == RDiv(RSum(xs), RInt(Len(xs)))

\* null, and NaN
Null == [null |-> TRUE]

NaN == [nan |-> TRUE]

-----------------------------------------------------------------------------
(* getUniswapPoolsWithAPR: the metrics of one fetched pool.  The subgraph    *)
(* sends numbers as strings; a string is a sequence of characters.           *)

\* The value of the longest prefix of decimal digits of cs, continuing
\* from acc.
RECURSIVE DigitPrefix(_, _)
DigitPrefix(cs, acc) ==
    LET digits == <<"0", "1", "2", "3", "4", "5", "6", "7", "8", "9">>
        at == {i \in 1..10 : cs # <<>> /\ digits[i] = Head(cs)}
    IN IF at = {} THEN acc
       ELSE DigitPrefix(Tail(cs), 10 * acc + (CHOOSE i \in at : TRUE) - 1)

\* parseFloat on strings without a fraction or an exponent: an optional
\* sign, then the longest prefix of digits; NaN when there is no digit.
ParseFloat(cs) ==
    LET negative == cs # <<>> /\ Head(cs) = "-"
        signed == cs # <<>> /\ Head(cs) \in {"-", "+"}
        rest == IF signed THEN Tail(cs) ELSE cs
    IN IF DigitPrefix(rest, -1) = -1 THEN NaN
       ELSE RInt((IF negative THEN -1 ELSE 1) * DigitPrefix(rest, 0))

IsNaN(x) == x = NaN

\* x > 0 in JavaScript: false for NaN.
Positive(x) == ~IsNaN(x) /\ x.num > 0

\* x >= 0 in JavaScript: false for NaN.
NonNegative(x) == ~IsNaN(x) /\ x.num >= 0

\* The longest history of daily snapshots a fetched pool has.
MaxDays == 2

\* The pools the subgraph can send: totalValueLockedUSD and, newest first,
\* the feesUSD, tvlUSD and volumeUSD of each element of poolDayData.
FetchedPools ==
    LET FeeStrings == {<<"a">>, <<"-", "1">>, <<"1">>}
        TvlStrings == {<<>>, <<"0">>, <<"1", "0", "0">>, <<"2", "0", "0", "x">>}
        VolumeStrings == {<<"x">>, <<"0">>, <<"3", "0">>}
        DailySnapshots ==
            [feesUSD : FeeStrings, tvlUSD : TvlStrings, volumeUSD : VolumeStrings]
    IN [totalValueLockedUSD : TvlStrings,
        poolDayData : UNION {[1..n -> DailySnapshots] : n \in 0..MaxDays}]

\* The body of the outer if: there is history and currentTVL > 0.
HasMetrics(pool) ==
    /\ Len(pool.poolDayData) > 0
    /\ Positive(ParseFloat(pool.totalValueLockedUSD))

\* The predicate of the validDays filter.
IsValidDay(d) ==
    /\ ~IsNaN(ParseFloat(d.feesUSD))
    /\ ~IsNaN(ParseFloat(d.tvlUSD))
    /\ Positive(ParseFloat(d.tvlUSD))

\* apr = (dailyFeesUSD / currentTVL) * 365 * 100
LatestApr(pool) ==
    LET dailyFeesUSD == ParseFloat(pool.poolDayData[1].feesUSD)
        currentTVL == ParseFloat(pool.totalValueLockedUSD)
    IN IF NonNegative(dailyFeesUSD)
       THEN RMul(RDiv(dailyFeesUSD, currentTVL), RInt(36500))
       ELSE Null

DayAprAsFraction(day) ==
    RMul(RDiv(ParseFloat(day.feesUSD), ParseFloat(day.tvlUSD)), RInt(365))

\* (parseFloat(day.feesUSD) / parseFloat(day.tvlUSD)) * 365 * 100
DayApr(day) ==
    RMul(RDiv(ParseFloat(day.feesUSD), ParseFloat(day.tvlUSD)), RInt(36500))

MapSeq(Op(_), xs) == [i \in 1..Len(xs) |-> Op(xs[i])]

\* The mean of the squared distances to the mean.
Variance(xs, mean) ==
    RMean([i \in 1..Len(xs) |-> RMul(RSub(xs[i], mean), RSub(xs[i], mean))])

AnyNaN(xs) == \E i \in 1..Len(xs) : IsNaN(xs[i])

\* Arithmetic on a list that may hold NaN gives NaN.
MeanOrNaN(xs) == IF AnyNaN(xs) THEN NaN ELSE RMean(xs)

\* ((end - start) / start) * 100, computed when start > 0.
Trend(start, end) ==
    IF ~Positive(start) THEN Null
    ELSE IF IsNaN(end) THEN NaN
    ELSE RMul(RDiv(RSub(end, start), start), RInt(100))

\* Least squares slope of ys against the indexes 0 .. n - 1.
regressionSlope(ys) ==
    LET n == Len(ys)
        xs == [i \in 1..n |-> RInt(i - 1)]
        xMean == RMean(xs)
        yMean == RMean(ys)
        num == RSum([i \in 1..n |-> RMul(RSub(xs[i], xMean), RSub(ys[i], yMean))])
        den == RSum([i \in 1..n |-> RMul(RSub(xs[i], xMean), RSub(xs[i], xMean))])
    IN IF n < 2 THEN Null
       ELSE IF den.num = 0 THEN Null
       ELSE IF AnyNaN(ys) THEN NaN
       ELSE RDiv(num, den)

NoMetrics ==
    [apr |-> Null, averageApr7d |-> Null, averageVolume7d |-> Null,
     aprStdDev |-> Null, tvlTrend |-> Null, volumeTrend |-> Null,
     tvlSlope |-> Null, volumeSlope |-> Null, sharpeRatio |-> Null,
     validDays |-> <<>>]

\* The metrics of the window, from the days that pass the filter.  The
\* standard deviation is the square root of the variance it carries, and
\* the Sharpe ratio is the mean over that square root.
WindowMetrics(validDays) ==
    LET aprs == MapSeq(DayApr, validDays)
        mean == RMean(aprs)
        variance == Variance(aprs, mean)
        Tvl(d) == ParseFloat(d.tvlUSD)
        Vol(d) == ParseFloat(d.volumeUSD)
        tvls == MapSeq(Tvl, validDays)
        vols == MapSeq(Vol, validDays)
        k == Len(validDays)
    IN [averageApr7d |-> mean,
        aprStdDev |-> [sqrt |-> variance],
        sharpeRatio |-> IF variance.num > 0
                        THEN [mean |-> mean, sqrt |-> variance]
                        ELSE Null,
        averageVolume7d |-> MeanOrNaN(vols),
        tvlTrend |-> IF k > 1 THEN Trend(tvls[k], tvls[1]) ELSE Null,
        volumeTrend |-> IF k > 1 THEN Trend(vols[k], vols[1]) ELSE Null,
        tvlSlope |-> IF k > 1 THEN regressionSlope(tvls) ELSE Null,
        volumeSlope |-> IF k > 1 THEN regressionSlope(vols) ELSE Null]

\* The element of poolsWithAPR made from one fetched pool; validDays is the
\* list the window computations ran over.
PoolWithAPR(pool) ==
    IF ~HasMetrics(pool) THEN NoMetrics
    ELSE LET validDays == SelectSeq(pool.poolDayData, IsValidDay)
             w == WindowMetrics(validDays)
         IN IF Len(validDays) = 0
            THEN [NoMetrics EXCEPT !.apr = LatestApr(pool)]
            ELSE [apr |-> LatestApr(pool),
                  averageApr7d |-> w.averageApr7d,
                  averageVolume7d |-> w.averageVolume7d,
                  aprStdDev |-> w.aprStdDev,
                  tvlTrend |-> w.tvlTrend,
                  volumeTrend |-> w.volumeTrend,
                  tvlSlope |-> w.tvlSlope,
                  volumeSlope |-> w.volumeSlope,
                  sharpeRatio |-> w.sharpeRatio,
                  validDays |-> validDays]

\* The subgraph has answered with one pool and nothing is computed yet.
MetricsInit ==
    /\ Constructed
    /\ source = [v \in Versions |-> "ok"]
    /\ input \in [fn : {"getUniswapPoolsWithAPR"}, pool : FetchedPools]
    /\ output = NoValue

\* pools.map(...) on the fetched pool.
getUniswapPoolsWithAPR ==
    /\ input.fn = "getUniswapPoolsWithAPR"
    /\ output = NoValue
    /\ output' = [fn |-> "getUniswapPoolsWithAPR", pool |-> PoolWithAPR(input.pool)]
    /\ UNCHANGED <<serviceVars, input>>

MetricsSpec == MetricsInit /\ [][getUniswapPoolsWithAPR]_vars

-----------------------------------------------------------------------------
(* token-correlation.utils.ts: the filters and the correlation score that    *)
(* getBestPoolsWithScore imports.  Token ids are lower-case addresses.       *)

Usdc == "0xa0b86991c6218b36c1d19d4a2e9eb0ce3606eb48"

Usdt == "0xdac17f958d2ee523a2206206994597c13d831ec7"

Wbtc == "0x2260fac5e5542a773aa44fbcfedf7c193bc2c599"

\* A token that is in neither table.
Exotic == "0x1111111111111111111111111111111111111111"

STABLE_TOKENS == {Usdc, Usdt}

MAJOR_TOKENS == STABLE_TOKENS \cup {Wbtc}

CorrelationDefaults ==
    [preferStableCorrelation |-> FALSE, preferStableBase |-> FALSE,
     avoidExoticPairs |-> FALSE]

\* id.toLowerCase() for the ids of the model: the address of USDC is also
\* met in its checksummed spelling; every other id is in lower case.  A pool
\* without a token id has the id "", as pool.token0?.id?.toLowerCase() || ''
\* gives it.
toLowerCase(id) ==
    IF id = "0xA0b86991c6218b36c1d19D4a2e9Eb0cE3606eB48" THEN Usdc ELSE id

\* Mutant: the table of major tokens is consulted before the table of
\* stable tokens.
calculateTokenCorrelationMajorFirst(pool, options) ==
    LET token0Address == toLowerCase(pool.token0)
        token1Address == toLowerCase(pool.token1)
        isToken0Stable == token0Address \in STABLE_TOKENS
        isToken1Stable == token1Address \in STABLE_TOKENS
        hasMajorToken ==
            token0Address \in MAJOR_TOKENS \/ token1Address \in MAJOR_TOKENS
    IN IF hasMajorToken THEN Ratio(6, 10)
       ELSE IF isToken0Stable /\ isToken1Stable
       THEN (IF options.preferStableCorrelation THEN RInt(1) ELSE Ratio(95, 100))
       ELSE IF isToken0Stable \/ isToken1Stable
       THEN (IF options.preferStableBase THEN Ratio(9, 10) ELSE Ratio(8, 10))
       ELSE IF options.avoidExoticPairs THEN Ratio(1, 10)
       ELSE Ratio(3, 10)

calculateTokenCorrelation(pool, options) ==
    LET token0Address == toLowerCase(pool.token0)
        token1Address == toLowerCase(pool.token1)
        isToken0Stable == token0Address \in STABLE_TOKENS
        isToken1Stable == token1Address \in STABLE_TOKENS
        hasMajorToken ==
            token0Address \in MAJOR_TOKENS \/ token1Address \in MAJOR_TOKENS
    IN IF isToken0Stable /\ isToken1Stable
       THEN (IF options.preferStableCorrelation THEN RInt(1) ELSE Ratio(95, 100))
       ELSE IF isToken0Stable \/ isToken1Stable
       THEN (IF options.preferStableBase THEN Ratio(9, 10) ELSE Ratio(8, 10))
       ELSE IF hasMajorToken THEN Ratio(6, 10)
       ELSE IF options.avoidExoticPairs THEN Ratio(1, 10)
       ELSE Ratio(3, 10)

meetsCorrelationCriteria(pool, options) ==
    LET correlation == calculateTokenCorrelation(pool, CorrelationDefaults)
    IN /\ RLeq(options.minTokenCorrelation, correlation)
       /\ RLeq(correlation, options.maxTokenCorrelation)

\* A caller has a pool and the three flags at hand.  The tokens are a
\* stable one in both spellings, another stable one, a major one that is
\* not stable, one in neither table, and a missing id.
CorrelationInit ==
    /\ Constructed
    /\ source = [v \in Versions |-> "ok"]
    /\ LET TokenIds ==
               {Usdc, "0xA0b86991c6218b36c1d19D4a2e9Eb0cE3606eB48", Usdt, Wbtc,
                Exotic, ""}
       IN input \in [fn : {"calculateTokenCorrelation"},
                     pool : [token0 : TokenIds, token1 : TokenIds],
                     options : [preferStableCorrelation : BOOLEAN,
                                preferStableBase : BOOLEAN,
                                avoidExoticPairs : BOOLEAN]]
    /\ output = NoValue

CalculateTokenCorrelation ==
    /\ input.fn = "calculateTokenCorrelation"
    /\ output = NoValue
    /\ output' = [fn |-> "calculateTokenCorrelation",
                  correlationScore |->
                      calculateTokenCorrelation(input.pool, input.options)]
    /\ UNCHANGED <<serviceVars, input>>

CorrelationSpec == CorrelationInit /\ [][CalculateTokenCorrelation]_vars

\* preferredFeeTiers is a set of fee tiers; the empty set stands for an
\* absent or empty list.
isPreferredFeeTier(pool, preferredFeeTiers) ==
    preferredFeeTiers = {} \/ pool.feeTier \in preferredFeeTiers

-----------------------------------------------------------------------------
(* getBestPoolsWithScore: filter, score, sort and truncate the pools that    *)
(* getUniswapPoolsWithAPR returned.                                          *)

\* The longest list of pools getUniswapPoolsWithAPR returns.
MaxPools == 2

\* The pools getUniswapPoolsWithAPR can return.  createdDaysAgo is
\* (Date.now() / 1000 - createdAtTimestamp) / 86400, or Null for a pool
\* without createdAtTimestamp.
PoolsWithAPR ==
    {[id |-> "p1", token0 |-> Usdc, token1 |-> Wbtc, feeTier |-> 500,
      totalValueLockedUSD |-> <<"2", "0", "0">>, apr |-> RInt(20),
      aprStdDev |-> RInt(3), tvlTrend |-> RInt(10), volumeTrend |-> Null,
      createdDaysAgo |-> Null],
     [id |-> "p2", token0 |-> Exotic, token1 |-> Exotic, feeTier |-> 3000,
      totalValueLockedUSD |-> <<"1", "0", "0">>, apr |-> Null,
      aprStdDev |-> Null, tvlTrend |-> RInt(-10), volumeTrend |-> RInt(50),
      createdDaysAgo |-> RInt(40)],
     [id |-> "p3", token0 |-> Wbtc, token1 |-> Exotic, feeTier |-> 500,
      totalValueLockedUSD |-> <<>>, apr |-> RInt(5),
      aprStdDev |-> RInt(6), tvlTrend |-> Null, volumeTrend |-> NaN,
      createdDaysAgo |-> RInt(5)],
     [id |-> "p4", token0 |-> Usdc, token1 |-> Usdt, feeTier |-> 500,
      totalValueLockedUSD |-> <<"3", "0", "0", "x">>, apr |-> RInt(5),
      aprStdDev |-> RInt(6), tvlTrend |-> RInt(10), volumeTrend |-> RInt(50),
      createdDaysAgo |-> RInt(5)]}

\* aprWeight, tvlWeight, volatilityWeight, tvlTrendWeight, volumeTrendWeight
Weights(a, t, v, tt, vt) ==
    [aprWeight |-> a, tvlWeight |-> t, volatilityWeight |-> v,
     tvlTrendWeight |-> tt, volumeTrendWeight |-> vt]

DefaultWeights ==
    Weights(Ratio(4, 10), Ratio(2, 10), Ratio(2, 10), Ratio(1, 10), Ratio(1, 10))

\* The options that restrict the pools beyond minTVL and minAPR;
\* maxPoolAgeDays 0 stands for an absent option (it is falsy).
FilterDefaults ==
    [maxPoolAgeDays |-> 0, preferredFeeTiers |-> {},
     minTokenCorrelation |-> RInt(0), maxTokenCorrelation |-> RInt(1),
     correlationWeight |-> RInt(0)]

MinTVLChoices == {RInt(0), RInt(150), RInt(250)}

\* p.apr ?? 0
Coalesce(x) == IF x = Null THEN RInt(0) ELSE x

\* Math.min(...xs) and Math.max(...xs) of a non-empty list: NaN when an
\* element is NaN.
MathMin(xs) ==
    IF AnyNaN(xs) THEN NaN
    ELSE xs[CHOOSE i \in 1..Len(xs) : \A j \in 1..Len(xs) : RLeq(xs[i], xs[j])]

MathMax(xs) ==
    IF AnyNaN(xs) THEN NaN
    ELSE xs[CHOOSE i \in 1..Len(xs) : \A j \in 1..Len(xs) : RLeq(xs[j], xs[i])]

\* max > min ? (val - min) / (max - min) : 0
normalizeUnscaled(val, min, max) ==
    IF ~IsNaN(min) /\ ~IsNaN(max) /\ RLess(min, max)
    THEN RSub(val, min)
    ELSE RInt(0)

normalize(val, min, max) ==
    IF ~IsNaN(min) /\ ~IsNaN(max) /\ RLess(min, max)
    THEN RDiv(RSub(val, min), RSub(max, min))
    ELSE RInt(0)

\* The value of a metric of the pool, as the normalisation reads it.
MetricValue(p, metric) ==
    CASE metric = "apr" -> Coalesce(p.apr)
      [] metric = "tvl" -> ParseFloat(p.totalValueLockedUSD)
      [] metric = "volatility" -> Coalesce(p.aprStdDev)
      [] metric = "tvlTrend" -> Coalesce(p.tvlTrend)
      [] metric = "volumeTrend" -> Coalesce(p.volumeTrend)
      [] metric = "correlation" -> calculateTokenCorrelation(p, CorrelationDefaults)

\* normalize(value of p, minimum over all pools, maximum over all pools)
Norm(p, pools, metric) ==
    LET values == [i \in 1..Len(pools) |-> MetricValue(pools[i], metric)]
    IN normalize(MetricValue(p, metric), MathMin(values), MathMax(values))

\* (p.apr ?? 0) >= minAPR && parseFloat(p.totalValueLockedUSD) >= minTVL
meetsBasicCriteriaBelow(p, options) ==
    /\ RLeq(options.minAPR, Coalesce(p.apr))
    /\ ParseFloat(p.totalValueLockedUSD) # NaN
    /\ RLeq(ParseFloat(p.totalValueLockedUSD), options.minTVL)

meetsBasicCriteria(p, options) ==
    /\ RLeq(options.minAPR, Coalesce(p.apr))
    /\ ParseFloat(p.totalValueLockedUSD) # NaN
    /\ RLeq(options.minTVL, ParseFloat(p.totalValueLockedUSD))

meetsAgeRequirement(p, options) ==
    \/ options.maxPoolAgeDays = 0
    \/ p.createdDaysAgo = Null
    \/ RLeq(p.createdDaysAgo, RInt(options.maxPoolAgeDays))

\* The predicate of pools.filter(...)
PassesFilters(p, options) ==
    /\ meetsBasicCriteria(p, options)
    /\ meetsAgeRequirement(p, options)
    /\ isPreferredFeeTier(p, options.preferredFeeTiers)
    /\ meetsCorrelationCriteria(p, options)

RAbs(x) == IF x.num < 0 THEN RSub(RInt(0), x) ELSE x

\* The composite score of p among pools.
Score(p, pools, options) ==
    LET aprNorm == Norm(p, pools, "apr")
        tvlNorm == Norm(p, pools, "tvl")
        volNorm == RSub(RInt(1), Norm(p, pools, "volatility"))
        tvlTrendNorm == Norm(p, pools, "tvlTrend")
        volumeTrendNorm == Norm(p, pools, "volumeTrend")
        correlationNorm == Norm(p, pools, "correlation")
        cw == options.correlationWeight
        weightSum ==
            RSum(<<options.aprWeight, options.tvlWeight, options.volatilityWeight,
                   options.tvlTrendWeight, options.volumeTrendWeight, RAbs(cw)>>)
        weightAdjustment ==
            IF cw # RInt(0) THEN RDiv(RSub(RInt(1), RAbs(cw)), weightSum)
            ELSE RInt(1)
    IN RSum(<<RMul(RMul(aprNorm, options.aprWeight), weightAdjustment),
              RMul(RMul(tvlNorm, options.tvlWeight), weightAdjustment),
              RMul(RMul(volNorm, options.volatilityWeight), weightAdjustment),
              RMul(RMul(tvlTrendNorm, options.tvlTrendWeight), weightAdjustment),
              RMul(RMul(volumeTrendNorm, options.volumeTrendWeight), weightAdjustment),
              IF cw.num >= 0 THEN RMul(correlationNorm, cw)
              ELSE RMul(RSub(RInt(1), correlationNorm), RAbs(cw))>>)

\* { ...p, score }
Scored(p, pools, options) ==
    [id |-> p.id, token0 |-> p.token0, token1 |-> p.token1, feeTier |-> p.feeTier,
     totalValueLockedUSD |-> p.totalValueLockedUSD, apr |-> p.apr,
     aprStdDev |-> p.aprStdDev, tvlTrend |-> p.tvlTrend,
     volumeTrend |-> p.volumeTrend, createdDaysAgo |-> p.createdDaysAgo,
     score |-> Score(p, pools, options)]

\* The place of x in a list sorted by descending score: after every
\* element whose score is not lower, which keeps equal scores in order.
RECURSIVE InsertByScore(_, _)
InsertByScore(sorted, x) ==
    IF sorted = <<>> THEN <<x>>
    ELSE IF RLess(Coalesce(Head(sorted).score), Coalesce(x.score)) THEN <<x>> \o sorted
    ELSE <<Head(sorted)>> \o InsertByScore(Tail(sorted), x)

\* .sort((a, b) => (b.score ?? 0) - (a.score ?? 0)), a stable sort
RECURSIVE SortByScoreFrom(_, _)
SortByScoreFrom(sorted, rest) ==
    IF rest = <<>> THEN sorted
    ELSE SortByScoreFrom(InsertByScore(sorted, Head(rest)), Tail(rest))

SortByScoreUnsorted(xs) == xs

SortByScore(xs) == SortByScoreFrom(<<>>, xs)

\* xs.slice(0, end): a negative end counts from the end of the list.
SliceFromStart(xs, end) ==
    LET last == IF end < 0 THEN Len(xs) + end ELSE end
        n == IF last < 0 THEN 0 ELSE IF last > Len(xs) THEN Len(xs) ELSE last
    IN SubSeq(xs, 1, n)

\* The value getBestPoolsWithScore resolves to.
BestPoolsWithScore(pools, options) ==
    IF Len(pools) = 0 THEN <<>>
    ELSE LET Passes(p) == PassesFilters(p, options)
             WithScore(p) == Scored(p, pools, options)
             filtered == SortByScore(MapSeq(WithScore, SelectSeq(pools, Passes)))
         IN SliceFromStart(filtered, options.topN)

\* The options object of a call.
CallOptions(chosen, minTVL) ==
    chosen.weights @@ chosen.filters
        @@ [minAPR |-> chosen.minAPR, topN |-> chosen.topN, minTVL |-> minTVL]

\* getUniswapPoolsWithAPR has some pools to return, and the caller has
\* chosen every option but minTVL; topN is what the controller passes,
\* Number(topN) of the query string.
ScoringInit ==
    /\ Constructed
    /\ source = [v \in Versions |-> "ok"]
    /\ input \in
           [fn : {"getBestPoolsWithScore"},
            pools : UNION {[1..n -> PoolsWithAPR] : n \in 0..MaxPools},
            weights :
                {DefaultWeights,
                 Weights(RInt(0), RInt(0), Ratio(1, 2), RInt(0), RInt(0)),
                 Weights(Ratio(1, 10), Ratio(1, 10), Ratio(1, 10), Ratio(1, 10),
                         Ratio(1, 10))},
            filters :
                {FilterDefaults,
                 [FilterDefaults EXCEPT !.maxPoolAgeDays = 30],
                 [FilterDefaults EXCEPT !.preferredFeeTiers = {500}],
                 [FilterDefaults EXCEPT !.minTokenCorrelation = Ratio(1, 2),
                                        !.correlationWeight = Ratio(1, 5)]},
            minAPR : {RInt(0), RInt(10)},
            topN : -1..MaxPools]
    /\ output = NoValue

\* One call on the pools, with the options of input and the given minTVL.
getBestPoolsWithScore(minTVL) ==
    /\ input.fn = "getBestPoolsWithScore"
    /\ output' = [fn |-> "getBestPoolsWithScore", minTVL |-> minTVL,
                  pools |-> BestPoolsWithScore(input.pools, CallOptions(input, minTVL))]
    /\ UNCHANGED <<serviceVars, input>>

NextScoring == \E minTVL \in MinTVLChoices : getBestPoolsWithScore(minTVL)

ScoringSpec == ScoringInit /\ [][NextScoring]_vars

-----------------------------------------------------------------------------
(* position-sizing.utils.ts: calculatePositionSizes.  Percentages and        *)
(* dollar values are rationals, or NaN where the code divides 0 by 0.        *)

DEFAULT_POSITION_SIZING ==
    [low |-> [maxPositionPercentage |-> 30, minPositionUSD |-> 500,
              targetPositions |-> 4, concentrationFactor |-> Ratio(7, 10)],
     medium |-> [maxPositionPercentage |-> 40, minPositionUSD |-> 250,
                 targetPositions |-> 3, concentrationFactor |-> Ratio(8, 10)],
     high |-> [maxPositionPercentage |-> 60, minPositionUSD |-> 100,
               targetPositions |-> 2, concentrationFactor |-> Ratio(9, 10)]]

\* The longest list of pools given to calculatePositionSizes.
MaxSized == 3

\* The pools are told apart by their place in the list given; score is
\* Null for a pool without a score.
SizedPoolLists ==
    LET ScoreChoices == {Null, RInt(0), Ratio(1, 5), RInt(1)}
    IN UNION {{[i \in 1..n |-> [id |-> i, score |-> scores[i]]] :
                  scores \in [1..n -> ScoreChoices]} : n \in 0..MaxSized}

\* strategy is the key of the preset given, or "none" without a preset.
PositionSizingOptions ==
    [totalInvestmentUSD : {0, 1000, 10000},
     maxPositionPercentage : {Null, RInt(50)},
     minPositionUSD : {100},
     equalWeight : BOOLEAN,
     strategy : {"none", "low", "medium", "high"}]

Min2(a, b) == IF RLeq(a, b) THEN a ELSE b

Max2(a, b) == IF RLeq(a, b) THEN b ELSE a

\* strategy?.key || 'medium'
RiskProfile(options) ==
    IF options.strategy = "none" THEN "medium" ELSE options.strategy

\* maxPositionPercentage ?? profileDefaults.maxPositionPercentage
MaxPercent(options) ==
    IF options.maxPositionPercentage = Null
    THEN RInt(DEFAULT_POSITION_SIZING[RiskProfile(options)].maxPositionPercentage)
    ELSE options.maxPositionPercentage

\* Mutant: the minimum of the options alone, without the minimum of the tier.
MinPositionValueUSDOption(options) == RInt(options.minPositionUSD)

\* Math.max(minPositionUSD, profileDefaults.minPositionUSD)
MinPositionValueUSD(options) ==
    Max2(RInt(options.minPositionUSD),
         RInt(DEFAULT_POSITION_SIZING[RiskProfile(options)].minPositionUSD))

\* { poolId, percentage, targetValueUSD }
PositionSize(pool, percentage, options) ==
    [poolId |-> pool.id, percentage |-> percentage,
     targetValueUSD |->
         IF IsNaN(percentage) THEN NaN
         ELSE RDiv(RMul(RInt(options.totalInvestmentUSD), percentage), RInt(100))]

\* The equal weighting branch.
EqualWeightSizes(sortedPools, options) ==
    LET fits == RDiv(RInt(options.totalInvestmentUSD), MinPositionValueUSD(options))
        positionCount ==
            IF fits.num \div fits.den < Len(sortedPools)
            THEN fits.num \div fits.den ELSE Len(sortedPools)
        percentPerPosition ==
            IF positionCount = 0 THEN MaxPercent(options)
            ELSE Min2(Ratio(100, positionCount), MaxPercent(options))
    IN [i \in 1..positionCount |->
           PositionSize(sortedPools[i], percentPerPosition, options)]

\* 1 + concentrationFactor * (targetCount - index - 1) / (targetCount - 1),
\* for the index-th pool counted from 1; 0 / 0 for a single pool.
ConcentrationMultiplier(concentrationFactor, targetCount, index) ==
    IF targetCount = 1 THEN NaN
    ELSE RAdd(RInt(1), RDiv(RMul(concentrationFactor, RInt(targetCount - index)),
                            RInt(targetCount - 1)))

\* Sums of the defined entries of ws at the indexes in ks.
RECURSIVE SumAt(_, _)
SumAt(ws, ks) ==
    IF ks = {} THEN RInt(0)
    ELSE LET k == CHOOSE k \in ks : TRUE
         IN RAdd(ws[k], SumAt(ws, ks \ {k}))

\* The percentages after the first pass: oversized positions are capped.
CapOversized(percentages, maxPercent) ==
    [k \in 1..Len(percentages) |->
        IF RLess(maxPercent, percentages[k]) THEN maxPercent ELSE percentages[k]]

\* The second pass: the percentage left over is given to the positions
\* under the cap, in proportion to their weighted scores.
Redistribute(capped, weighted, maxPercent) ==
    LET n == Len(capped)
        remainingPercent == RSub(RInt(100), RSum(capped))
        uncapped == {k \in 1..n : RLess(capped[k], maxPercent)}
        totalUncappedScore == SumAt(weighted, uncapped)
    IN [k \in 1..n |->
           IF k \notin uncapped THEN capped[k]
           ELSE IF totalUncappedScore.num = 0 THEN NaN
           ELSE RAdd(capped[k],
                     RMul(remainingPercent,
                          RDiv(weighted[k], totalUncappedScore)))]

\* (pool.score ?? 0) * concentrationMultiplier of each selected pool.
WeightedScores(poolsToUse, options) ==
    LET n == Len(poolsToUse)
        profileDefaults == DEFAULT_POSITION_SIZING[RiskProfile(options)]
    IN [k \in 1..n |->
           IF n = 1 THEN NaN
           ELSE RMul(Coalesce(poolsToUse[k].score),
                     ConcentrationMultiplier(profileDefaults.concentrationFactor, n, k))]

\* (pos.weightedScore / totalWeightedScore) * 100
NormalizedPercentages(poolsToUse, options) ==
    LET weighted == WeightedScores(poolsToUse, options)
        totalWeightedScore == RSum(weighted)
    IN [k \in 1..Len(poolsToUse) |->
           IF Len(poolsToUse) = 1 THEN NaN
           ELSE RMul(RDiv(weighted[k], totalWeightedScore), RInt(100))]

\* The percentages after the first pass.  NaN > maxPercent is false: a
\* percentage that is NaN stays.
FirstPassPercentages(poolsToUse, options) ==
    IF Len(poolsToUse) = 1 THEN <<NaN>>
    ELSE CapOversized(NormalizedPercentages(poolsToUse, options), MaxPercent(options))

\* The percentages of the score-weighted branch when the scores sum to
\* more than 0.
ScoreWeightedPercentages(poolsToUse, options) ==
    LET n == Len(poolsToUse)
        maxPercent == MaxPercent(options)
        weighted == WeightedScores(poolsToUse, options)
        percentages == NormalizedPercentages(poolsToUse, options)
        capped == FirstPassPercentages(poolsToUse, options)
        remainingPercent == RSub(RInt(100), RSum(capped))
        remainingPositions ==
            Cardinality({k \in 1..n : ~RLess(maxPercent, percentages[k])})
    IN IF n = 1 THEN <<NaN>>
       ELSE IF remainingPercent.num > 0 /\ remainingPositions > 0
       THEN Redistribute(capped, weighted, maxPercent)
       ELSE capped

\* sortedPools.slice(0, targetCount)
PoolsToUse(sortedPools, options) ==
    LET profileDefaults == DEFAULT_POSITION_SIZING[RiskProfile(options)]
        targetCount ==
            IF Len(sortedPools) < profileDefaults.targetPositions
            THEN Len(sortedPools) ELSE profileDefaults.targetPositions
    IN SubSeq(sortedPools, 1, targetCount)

\* poolsToUse.reduce((sum, pool) => sum + (pool.score ?? 0), 0)
TotalScore(poolsToUse) ==
    LET Score0(p) == Coalesce(p.score)
    IN RSum(MapSeq(Score0, poolsToUse))

\* The score-weighted branch.
ScoreWeightedSizes(sortedPools, options) ==
    LET poolsToUse == PoolsToUse(sortedPools, options)
        targetCount == Len(poolsToUse)
        totalScore == TotalScore(poolsToUse)
        percentPerPosition == Min2(Ratio(100, targetCount), MaxPercent(options))
        percentages == ScoreWeightedPercentages(poolsToUse, options)
        positions ==
            [k \in 1..targetCount |->
                PositionSize(poolsToUse[k], percentages[k], options)]
        LargeEnough(p) ==
            /\ ~IsNaN(p.targetValueUSD)
            /\ RLeq(MinPositionValueUSD(options), p.targetValueUSD)
    IN IF totalScore.num <= 0
       THEN [k \in 1..targetCount |->
                PositionSize(poolsToUse[k], percentPerPosition, options)]
       ELSE SelectSeq(positions, LargeEnough)

calculatePositionSizes(pools, options) ==
    IF Len(pools) = 0 THEN <<>>
    ELSE IF options.totalInvestmentUSD <= 0 THEN <<>>
    ELSE IF options.equalWeight
    THEN EqualWeightSizes(SortByScore(pools), options)
    ELSE ScoreWeightedSizes(SortByScore(pools), options)

\* A caller has scored pools and options at hand.
SizingInit ==
    /\ Constructed
    /\ source = [v \in Versions |-> "ok"]
    /\ input \in [fn : {"calculatePositionSizes"}, pools : SizedPoolLists,
                  options : PositionSizingOptions]
    /\ output = NoValue

\* One call.  Besides the positions returned, the percentages of the
\* score-weighted branch after its first pass and before its final filter
\* are kept for the properties; they are empty where that branch is not run.
CalculatePositionSizes ==
    /\ input.fn = "calculatePositionSizes"
    /\ output = NoValue
    /\ LET options == input.options
           poolsToUse == PoolsToUse(SortByScore(input.pools), options)
           weightedRun ==
               /\ Len(input.pools) > 0
               /\ options.totalInvestmentUSD > 0
               /\ ~options.equalWeight
               /\ TotalScore(poolsToUse).num > 0
       IN output' = [fn |-> "calculatePositionSizes",
                     positions |-> calculatePositionSizes(input.pools, options),
                     firstPass |->
                         IF weightedRun THEN FirstPassPercentages(poolsToUse, options)
                         ELSE <<>>,
                     percentages |->
                         IF weightedRun THEN ScoreWeightedPercentages(poolsToUse, options)
                         ELSE <<>>]
    /\ UNCHANGED <<serviceVars, input>>

SizingSpec == SizingInit /\ [][CalculatePositionSizes]_vars

-----------------------------------------------------------------------------
(* generateRebalanceRecommendations and its helpers.  The current price is   *)
(* the placeholder 1.0 and the APR change the placeholder 0 of the code.     *)

\* A property that is not set on an object.
Undefined == [undefined |-> TRUE]

\* The largest number of positions held.
MaxPositions == 1

\* currentPools: ids are unique, as the subgraph sends them.  Every field
\* the analysis reads varies on pool "p1"; pool "p2" is a candidate for a
\* new position.
PoolUniverses ==
    LET HeldPools ==
            [id : {"p1"}, apr : {Null, RInt(3), RInt(10)},
             correlation : {Undefined, Ratio(3, 10), Ratio(8, 10)},
             aprStdDev : {Null, RInt(10)}, score : {Ratio(1, 2)}]
        CandidatePool ==
            [id |-> "p2", apr |-> RInt(10), correlation |-> Ratio(8, 10),
             aprStdDev |-> Null, score |-> Ratio(2, 5)]
    IN {<<>>, <<CandidatePool>>}
           \cup {<<h>> : h \in HeldPools}
           \cup {<<h, CandidatePool>> : h \in HeldPools}

\* currentPositions: "p9" is a pool that is in no universe.
PositionLists ==
    LET PriceRanges ==
            {Undefined,
             [lowerPrice |-> Ratio(9, 10), upperPrice |-> Ratio(11, 10)],
             [lowerPrice |-> Ratio(1, 2), upperPrice |-> Ratio(51, 50)]}
        HeldPositions ==
            [poolId : {"p1", "p9"}, size : {0, 1000}, priceRange : PriceRanges]
    IN UNION {[1..n -> HeldPositions] : n \in 0..MaxPositions}

\* maxPositions 0 stands for the default, currentPositions.length.
PositionRebalanceOptions ==
    [strategy : {"none", "low", "medium", "high"},
     availableLiquidity : {0, 1000},
     minActionThreshold : {10, 50},
     maxPositions : {0, 2}]

widthMultipliers == [low |-> RInt(4), medium |-> Ratio(5, 2), high |-> Ratio(3, 2)]

correlationThresholds == [low |-> Ratio(7, 10), medium |-> Ratio(4, 10), high |-> RInt(0)]

\* strategy?.key || 'medium'
RebalanceProfile(strategy) == IF strategy = "none" THEN "medium" ELSE strategy

calculateOptimalPriceRange(pool, currentPrice, strategy) ==
    LET volatility ==
            IF pool.aprStdDev = Null \/ pool.aprStdDev = RInt(0) THEN Ratio(5, 100)
            ELSE RDiv(pool.aprStdDev, RInt(100))
        rangeWidth == RMul(volatility, widthMultipliers[RebalanceProfile(strategy)])
    IN [lowerPrice |-> RMul(currentPrice, RSub(RInt(1), rangeWidth)),
        upperPrice |-> RMul(currentPrice, RAdd(RInt(1), rangeWidth))]

\* Math.abs((optimal - current) / current * 100)
DiffPercent(optimal, current) ==
    RAbs(RMul(RDiv(RSub(optimal, current), current), RInt(100)))

needsRangeAdjustment(currentPriceRange, optimalPriceRange, currentPrice, minThresholdPercent) ==
    LET currentLower == currentPriceRange.lowerPrice
        currentUpper == currentPriceRange.upperPrice
        currentWidth == RSub(currentUpper, currentLower)
        optimalLower == optimalPriceRange.lowerPrice
        optimalUpper == optimalPriceRange.upperPrice
        optimalWidth == RSub(optimalUpper, optimalLower)
        priceProximityToLower == RDiv(RSub(currentPrice, currentLower), currentWidth)
        priceProximityToUpper == RDiv(RSub(currentUpper, currentPrice), currentWidth)
        isNearBoundary ==
            \/ RLess(priceProximityToLower, Ratio(2, 10))
            \/ RLess(priceProximityToUpper, Ratio(2, 10))
    IN \/ RLess(RInt(minThresholdPercent), DiffPercent(optimalLower, currentLower))
       \/ RLess(RInt(minThresholdPercent), DiffPercent(optimalUpper, currentUpper))
       \/ RLess(RInt(minThresholdPercent), DiffPercent(optimalWidth, currentWidth))
       \/ isNearBoundary

\* poolsMap.get(poolId): the last pool of that id, or Undefined.
PoolsMapGet(currentPools, poolId) ==
    LET at == {i \in 1..Len(currentPools) : currentPools[i].id = poolId}
    IN IF at = {} THEN Undefined
       ELSE currentPools[CHOOSE i \in at : \A j \in at : j <= i]

\* pool.correlation !== undefined && pool.correlation < threshold
BelowCorrelationThreshold(pool, riskProfile) ==
    /\ pool.correlation # Undefined
    /\ RLess(pool.correlation, correlationThresholds[riskProfile])

BelowAprFloorNegative(pool) == pool.apr # Null /\ RLess(pool.apr, RInt(0))

\* pool.apr !== null && pool.apr < 5
BelowAprFloor(pool) == pool.apr # Null /\ RLess(pool.apr, RInt(5))

RebalanceAction(actionType, position, targetSize, sizeChangePercent, range, reasonCodes, priority) ==
    [actionType |-> actionType, poolId |-> position.poolId,
     currentSize |-> RInt(position.size), targetSize |-> targetSize,
     sizeChangePercent |-> sizeChangePercent,
     currentPriceRange |-> position.priceRange,
     recommendedPriceRange |-> range,
     reasonCodes |-> reasonCodes, priority |-> priority]

MaxOf(a, b) == IF a < b THEN b ELSE a

\* Mutant: the range adjustment is looked at before the size adjustment.
ResolveActionTypeRangeFirst(sizeAdjustmentPercent, rangeAdjustmentNeeded) ==
    IF rangeAdjustmentNeeded THEN "adjust_range"
    ELSE IF sizeAdjustmentPercent <= -100 THEN "exit_position"
    ELSE IF sizeAdjustmentPercent < 0 THEN "decrease_size"
    ELSE IF sizeAdjustmentPercent > 0 THEN "increase_size"
    ELSE "maintain"

\* Determine action type based on size adjustment and range adjustment.
ResolveActionType(sizeAdjustmentPercent, rangeAdjustmentNeeded) ==
    IF sizeAdjustmentPercent <= -100 THEN "exit_position"
    ELSE IF sizeAdjustmentPercent < 0 THEN "decrease_size"
    ELSE IF sizeAdjustmentPercent > 0 THEN "increase_size"
    ELSE IF rangeAdjustmentNeeded THEN "adjust_range"
    ELSE "maintain"

\* One turn of the loop over currentPositions: the actions it pushes.
AnalyzePosition(position, currentPools, options) ==
    LET pool == PoolsMapGet(currentPools, position.poolId)
        riskProfile == RebalanceProfile(options.strategy)
        optimalPriceRange == calculateOptimalPriceRange(pool, RInt(1), options.strategy)
        rangeAdjustmentNeeded ==
            /\ position.priceRange # Undefined
            /\ needsRangeAdjustment(position.priceRange, optimalPriceRange,
                                    RInt(1), options.minActionThreshold)
        lowCorrelation == BelowCorrelationThreshold(pool, riskProfile)
        lowApr == BelowAprFloor(pool)
        sizeAdjustmentPercent ==
            (IF lowCorrelation THEN -50 ELSE 0) + (IF lowApr THEN -100 ELSE 0)
        priority ==
            MaxOf(MaxOf(MaxOf(1, IF rangeAdjustmentNeeded THEN 7 ELSE 1),
                        IF lowCorrelation THEN 8 ELSE 1),
                  IF lowApr THEN 9 ELSE 1)
        reasonCodes ==
            (IF rangeAdjustmentNeeded THEN <<"range_inefficiency">> ELSE <<>>)
                \o (IF lowCorrelation THEN <<"correlation_change">> ELSE <<>>)
                \o (IF lowApr THEN <<"apr_decline">> ELSE <<>>)
        actionType == ResolveActionType(sizeAdjustmentPercent, rangeAdjustmentNeeded)
        targetSize ==
            Max2(RInt(0), RMul(RInt(position.size),
                               RAdd(RInt(1), Ratio(sizeAdjustmentPercent, 100))))
    IN IF pool = Undefined
       THEN <<RebalanceAction("exit_position", position, RInt(0), -100,
                              Undefined, <<"pool_tvl_decline">>, 9)>>
       ELSE IF actionType = "maintain" THEN <<>>
       ELSE <<RebalanceAction(actionType, position, targetSize,
                              sizeAdjustmentPercent, optimalPriceRange,
                              reasonCodes, priority)>>

\* Step 1: the actions for the positions from the k-th on.
RECURSIVE AnalyzePositionsFrom(_, _, _)
AnalyzePositionsFrom(k, currentPools, options) ==
    IF k > Len(options.currentPositions) THEN <<>>
    ELSE AnalyzePosition(options.currentPositions[k], currentPools, options)
             \o AnalyzePositionsFrom(k + 1, currentPools, options)

\* maxPositions = currentPositions.length unless given
MaxPositionsOf(options) ==
    IF options.maxPositions = 0 THEN Len(options.currentPositions)
    ELSE options.maxPositions

\* Step 2: the new positions proposed when there is liquidity and room.
NewOpportunities(currentPools, options) ==
    LET riskProfile == RebalanceProfile(options.strategy)
        NotHeld(pool) ==
            \A k \in 1..Len(options.currentPositions) :
                options.currentPositions[k].poolId # pool.id
        newPoolCandidates == SortByScore(SelectSeq(currentPools, NotHeld))
        slotsAvailable == MaxPositionsOf(options) - Len(options.currentPositions)
        count ==
            IF slotsAvailable < Len(newPoolCandidates)
            THEN slotsAvailable ELSE Len(newPoolCandidates)
        avgNewPositionSize ==
            RDiv(RMul(RInt(options.availableLiquidity), Ratio(8, 10)), RInt(count))
        Enter(pool) ==
            [actionType |-> "enter_position", poolId |-> pool.id,
             currentSize |-> RInt(0), targetSize |-> avgNewPositionSize,
             sizeChangePercent |-> 100, currentPriceRange |-> Undefined,
             recommendedPriceRange |->
                 calculateOptimalPriceRange(pool, RInt(1), options.strategy),
             reasonCodes |-> <<"new_opportunity">>, priority |-> 5]
        Eligible(pool) ==
            /\ ~(pool.apr = Null \/ RLess(pool.apr, RInt(5)))
            /\ ~BelowCorrelationThreshold(pool, riskProfile)
    IN IF options.availableLiquidity > 0
           /\ Len(options.currentPositions) < MaxPositionsOf(options)
       THEN MapSeq(Enter, SelectSeq(SubSeq(newPoolCandidates, 1, count), Eligible))
       ELSE <<>>

RECURSIVE InsertByPriority(_, _)
InsertByPriority(sorted, x) ==
    IF sorted = <<>> THEN <<x>>
    ELSE IF Head(sorted).priority < x.priority THEN <<x>> \o sorted
    ELSE <<Head(sorted)>> \o InsertByPriority(Tail(sorted), x)

\* actions.sort((a, b) => b.priority - a.priority), a stable sort
RECURSIVE SortByPriorityFrom(_, _)
SortByPriorityFrom(sorted, rest) ==
    IF rest = <<>> THEN sorted
    ELSE SortByPriorityFrom(InsertByPriority(sorted, Head(rest)), Tail(rest))

generateRebalanceRecommendations(currentPools, options) ==
    SortByPriorityFrom(<<>>,
        AnalyzePositionsFrom(1, currentPools, options)
            \o NewOpportunities(currentPools, options))

\* The caller holds some positions and has the pools of its tier at hand.
RebalanceInit ==
    /\ Constructed
    /\ source = [v \in Versions |-> "ok"]
    /\ input \in [fn : {"generateRebalanceRecommendations"},
                  currentPools : PoolUniverses,
                  currentPositions : PositionLists,
                  options : PositionRebalanceOptions]
    /\ output = NoValue

GenerateRebalanceRecommendations ==
    /\ input.fn = "generateRebalanceRecommendations"
    /\ output = NoValue
    /\ output' =
           [fn |-> "generateRebalanceRecommendations",
            actions |->
                generateRebalanceRecommendations(
                    input.currentPools,
                    input.options @@ [currentPositions |-> input.currentPositions])]
    /\ UNCHANGED <<serviceVars, input>>

RebalanceSpec == RebalanceInit /\ [][GenerateRebalanceRecommendations]_vars

-----------------------------------------------------------------------------
(* Properties *)

\* C1: a getter called for a tier whose entry timestamp is more than 6 hours
\* old returns only after one refresh of that tier has completed, and the
\* value it returns comes from an entry stored since the call began, not from
\* the stale entry it read first.
C1_StaleReadRefreshesFirst ==
    \A c \in CallIds :
        (/\ call[c].pc = "returned"
         /\ call[c].cacheEntry.timestamp < call[c].t0 - FreshnessWindowMs)
        => /\ call[c].refreshes = 1
           /\ refresh[CallSlot(c)].pc = "done"
           /\ refresh[CallSlot(c)].strategy = call[c].strategy
           /\ call[c].entry.timestamp >= call[c].t0
           /\ call[c].entry # call[c].cacheEntry
           /\ call[c].result = Field(call[c].op, cachedPools[call[c].strategy])

\* A getter has returned after finding a populated entry more than 6 hours old.
C1_Witness ==
    \E c \in CallIds :
        /\ call[c].pc = "returned"
        /\ call[c].cacheEntry.pools # <<>>
        /\ call[c].cacheEntry.timestamp < call[c].t0 - FreshnessWindowMs
        /\ call[c].refreshes = 1
        /\ call[c].entry.timestamp >= call[c].t0

\* C2: a refresh of a tier in which both sources fail or time out, the tier
\* holding a populated entry, leaves that entry as it was: pools, averageApr
\* and timestamp unchanged.
C2_TotalFailureRetainsEntry ==
    [][\A r \in RefreshIds :
          (/\ refresh[r].pc = "awaitV4"
           /\ refresh'[r].pc = "done"
           /\ SourceFailed(refresh'[r].out3)
           /\ SourceFailed(refresh'[r].out4)
           /\ cachedPools[refresh[r].strategy].pools # <<>>)
          => cachedPools'[refresh[r].strategy] = cachedPools[refresh[r].strategy]
      ]_vars

\* C3: the pool list getCachedPoolsByStrategy returns is, whole, the list the
\* most recent storing refresh of that tier computed, whatever refreshes of
\* the tier are in flight.
C3_ReadSeesWholeEntry ==
    \A c \in CallIds :
        (call[c].pc = "returned" /\ call[c].op = "pools")
        => call[c].result = lastStored[call[c].strategy]

\* getCachedPoolsByStrategy has answered from the cache while a refresh of
\* the same tier was between its v3 and its v4 query, v3 pools in hand.
C3_Witness ==
    \E c \in CallIds : \E r \in RefreshIds :
        /\ call[c].pc = "returned"
        /\ call[c].op = "pools"
        /\ call[c].result # <<>>
        /\ refresh[r].strategy = call[c].strategy
        /\ refresh[r].pc = "awaitV4"
        /\ refresh[r].v3Pools # <<>>

\* C4: a tier refresh completes whatever its sources do, and the entry it
\* stores holds the v3 result followed by the v4 result, a source that
\* failed or timed out contributing the empty list, duplicates kept.
C4_StoresConcatenation ==
    [][\A r \in RefreshIds :
          (refresh[r].pc = "awaitV4" /\ refresh'[r].pc = "done")
          => LET s  == refresh[r].strategy
                 o3 == refresh'[r].out3
                 o4 == refresh'[r].out4
                 c3 == IF o3.kind = "ok" THEN SourceResult(3) ELSE <<>>
                 c4 == IF o4.kind = "ok" THEN SourceResult(4) ELSE <<>>
             IN /\ refresh'[r].stored
                /\ cachedPools'[s].pools = c3 \o c4
                /\ cachedPools'[s].timestamp = now
      ]_vars

\* A refresh has completed with its v3 query failed and its v4 query
\* answered: the tier holds the v4 list alone.
C4_Witness ==
    \E r \in RefreshIds :
        /\ refresh[r].pc = "done"
        /\ refresh[r].stored
        /\ SourceFailed(refresh[r].out3)
        /\ refresh[r].out4.kind = "ok"
        /\ cachedPools[refresh[r].strategy].pools = SourceResult(4)

\* C5: a getter called for a tier whose entry is more than 6 hours old starts
\* one refresh, of that tier, and no other; the steps of that refresh change
\* no other tier's entry.
C5_OneRefreshOfTheTier ==
    [][\A c \in CallIds :
          /\ (/\ call[c].pc = "idle"
              /\ call'[c].pc # "idle"
              /\ call'[c].cacheEntry.timestamp < call'[c].t0 - FreshnessWindowMs)
             => /\ call'[c].refreshes = 1
                /\ refresh'[CallSlot(c)].pc = "awaitV3"
                /\ refresh'[CallSlot(c)].strategy = call'[c].strategy
                /\ \A r \in RefreshIds \ {CallSlot(c)} : refresh'[r] = refresh[r]
                /\ cachedPools' = cachedPools
          /\ (call[c].pc = "awaiting" /\ refresh'[CallSlot(c)] # refresh[CallSlot(c)])
             => \A t \in StrategyKey \ {call[c].strategy} :
                    cachedPools'[t] = cachedPools[t]
          /\ (call[c].pc = "awaiting" /\ call'[c].pc = "returned")
             => /\ call'[c].refreshes = 1
                /\ refresh' = refresh
                /\ cachedPools' = cachedPools
      ]_vars

\* A getter has returned after the one refresh it started for a tier whose
\* entry was more than 6 hours old, another tier holding pools.
C5_Witness ==
    \E c \in CallIds : \E t \in StrategyKey :
        /\ call[c].pc = "returned"
        /\ call[c].cacheEntry.timestamp < call[c].t0 - FreshnessWindowMs
        /\ call[c].refreshes = 1
        /\ refresh[CallSlot(c)].stored
        /\ t # call[c].strategy
        /\ cachedPools[t].pools # <<>>
        /\ cachedPools[t].timestamp < call[c].t0

\* C6 (as stated): whenever the entry's timestamp is within the 6-hour
\* window, getCachedPoolsByStrategy starts no refresh and returns the entry's
\* pools, whatever the entry holds.
C6_FreshAlwaysServed ==
    \A c \in CallIds :
        (/\ call[c].pc # "idle"
         /\ call[c].op = "pools"
         /\ call[c].cacheEntry.timestamp > call[c].t0 - FreshnessWindowMs)
        => /\ call[c].refreshes = 0
           /\ call[c].result = call[c].cacheEntry.pools

\* C6 (amended): whenever the entry's timestamp is within the 6-hour window
\* and its pool list is not empty, getCachedPoolsByStrategy starts no refresh
\* and returns the entry's pools.
C6_FreshNonEmptyServed ==
    \A c \in CallIds :
        (/\ call[c].pc # "idle"
         /\ call[c].op = "pools"
         /\ call[c].cacheEntry.timestamp > call[c].t0 - FreshnessWindowMs
         /\ call[c].cacheEntry.pools # <<>>)
        => /\ call[c].pc = "returned"
           /\ call[c].refreshes = 0
           /\ call[c].result = call[c].cacheEntry.pools
           /\ refresh[CallSlot(c)].pc = "idle"

\* getCachedPoolsByStrategy has answered at once from an entry that is
\* populated and within its window, some time after the entry was stored.
C6_Witness ==
    \E c \in CallIds :
        /\ call[c].pc = "returned"
        /\ call[c].op = "pools"
        /\ call[c].cacheEntry.pools # <<>>
        /\ call[c].cacheEntry.timestamp > call[c].t0 - FreshnessWindowMs
        /\ call[c].cacheEntry.timestamp < call[c].t0
        /\ call[c].refreshes = 0
        /\ call[c].result = call[c].cacheEntry.pools

C8_TierFailureIsolated ==
    \A r \in JobSlots : \A q \in JobSlots \ {r} :
        (/\ job.pc = "awaiting"
         /\ refresh[r].pc = "done"
         /\ SourceFailed(refresh[r].out3) \/ SourceFailed(refresh[r].out4)
         /\ refresh[q].pc = "done")
        => /\ refresh[q].stored
           /\ cachedPools[strategies[q]].pools =
                  refresh[q].out3.pools \o refresh[q].out4.pools

\* All three refreshes of a run are done: that of the first tier had both
\* its queries fail, those of the other two stored populated entries.
C8_Witness ==
    /\ job.pc = "awaiting"
    /\ \A r \in JobSlots : refresh[r].pc = "done"
    /\ SourceFailed(refresh[1].out3)
    /\ SourceFailed(refresh[1].out4)
    /\ \A q \in JobSlots \ {1} :
          /\ refresh[q].stored
          /\ refresh[q].out3.kind = "ok"
          /\ refresh[q].out4.kind = "ok"
          /\ cachedPools[strategies[q]].pools = SourceResult(3) \o SourceResult(4)

\* C9: no tier refresh waits for a source forever, even if no source ever
\* answers: again and again every refresh that was started has completed,
\* and a refresh that has completed has stored an entry.
C9_RefreshCompletes ==
    /\ [](\A r \in RefreshIds : refresh[r].pc = "done" => refresh[r].stored)
    /\ []<>(\A r \in RefreshIds : refresh[r].pc \notin {"awaitV3", "awaitV4"})

\* A refresh has completed with both its queries abandoned at their
\* timeouts, 30 seconds or more after the start, and stored the empty list.
C9_Witness ==
    \E r \in RefreshIds :
        /\ refresh[r].pc = "done"
        /\ refresh[r].stored
        /\ refresh[r].out3.kind = "timeout"
        /\ refresh[r].out4.kind = "timeout"
        /\ cachedPools[refresh[r].strategy].pools = <<>>
        /\ cachedPools[refresh[r].strategy].timestamp = now
        /\ now >= StartTime + 2 * QueryTimeoutMs

\* C10 (as stated): a read-through for a tier that never held a populated
\* entry, both subgraphs failing, does not return normally.
C10_FailureSurfaced ==
    \A c \in CallIds :
        ~(/\ call[c].pc = "returned"
          /\ call[c].refreshes = 1
          /\ ~populated[call[c].strategy]
          /\ \A v \in Versions : source[v] # "ok")

\* C10 (amended): a read-through for a tier that never held a populated
\* entry, both subgraphs failing, returns normally: the refresh stores an
\* empty entry with a new timestamp and the getter returns that entry's
\* value, the empty list or an average of 0.
C10_FailureAbsorbed ==
    \A c \in CallIds :
        (/\ call[c].pc = "returned"
         /\ call[c].refreshes = 1
         /\ ~populated[call[c].strategy]
         /\ \A v \in Versions : source[v] # "ok")
        => /\ refresh[CallSlot(c)].stored
           /\ SourceFailed(refresh[CallSlot(c)].out3)
           /\ SourceFailed(refresh[CallSlot(c)].out4)
           /\ call[c].entry.pools = <<>>
           /\ call[c].entry.timestamp >= call[c].t0
           /\ call[c].result = Field(call[c].op, EmptyEntry)

\* getCachedPoolsByStrategy has returned the empty list from a read-through
\* whose two queries failed, the tier never having held a pool.
C10_Witness ==
    \E c \in CallIds :
        /\ call[c].pc = "returned"
        /\ call[c].op = "pools"
        /\ call[c].refreshes = 1
        /\ ~populated[call[c].strategy]
        /\ \A v \in Versions : source[v] # "ok"
        /\ SourceFailed(refresh[CallSlot(c)].out3)
        /\ SourceFailed(refresh[CallSlot(c)].out4)
        /\ call[c].result = <<>>

\* C11: no serving operation changes a tier's entry or a field of a pool in
\* it: whenever an entry changes, a refreshStrategyPools of that tier has just
\* stored it.
C11_OnlyRefreshChangesEntries ==
    [][\A s \in StrategyKey :
          cachedPools'[s] # cachedPools[s]
          => \E r \in RefreshIds :
                /\ refresh[r].pc = "awaitV4"
                /\ refresh[r].strategy = s
                /\ refresh'[r].pc = "done"
                /\ refresh'[r].stored
      ]_vars

\* C12: in every state every tier's averageApr is the mean of the non-null
\* aprs of the pools of the same entry, and 0 when there is none.
C12_AverageAprIsMean ==
    \A s \in StrategyKey :
        LET pools == cachedPools[s].pools
            I == {i \in 1..Len(pools) : pools[i].apr # NullApr}
            Sum[S \in SUBSET I] ==
                IF S = {} THEN 0
                ELSE LET i == CHOOSE j \in S : TRUE
                     IN pools[i].apr + Sum[S \ {i}]
            avg == cachedPools[s].averageApr
        IN IF I = {}
           THEN avg.num = 0
           ELSE avg.num * Cardinality(I) = Sum[I] * avg.den

-----------------------------------------------------------------------------
(* Properties of the pool metrics (MetricsSpec) *)

MetricsDone == output.fn = "getUniswapPoolsWithAPR"

\* A snapshot whose feesUSD and tvlUSD parse to non-negative numbers and
\* whose tvlUSD is greater than 0.
SnapshotValid(d) ==
    /\ NonNegative(ParseFloat(d.feesUSD))
    /\ NonNegative(ParseFloat(d.tvlUSD))
    /\ Positive(ParseFloat(d.tvlUSD))

\* A snapshot whose feesUSD and tvlUSD parse to numbers, of any sign for
\* the fees, and whose tvlUSD is greater than 0.
SnapshotParsed(d) ==
    /\ ParseFloat(d.feesUSD) # NaN
    /\ ParseFloat(d.tvlUSD) # NaN
    /\ ParseFloat(d.tvlUSD).num > 0

\* fees / tvl * 365 * 100 of a snapshot, from its parsed numbers.
SnapshotApr(d) ==
    Ratio(ParseFloat(d.feesUSD).num * 36500, ParseFloat(d.tvlUSD).num)

RECURSIVE SumOfAprs(_, _)
SumOfAprs(days, k) ==
    IF k = 0 THEN RInt(0) ELSE RAdd(SumOfAprs(days, k - 1), SnapshotApr(days[k]))

MeanOfAprs(days) ==
    LET total == SumOfAprs(days, Len(days))
    IN Ratio(total.num, total.den * Len(days))

CurrentTvlPositive == Positive(ParseFloat(input.pool.totalValueLockedUSD))

\* C18: for a pool with a positive current TVL, the snapshots the window
\* computations run over are exactly the snapshots whose feesUSD and tvlUSD
\* parse to non-negative numbers with tvlUSD > 0, in their order.
C18_CountedIffValid ==
    (MetricsDone /\ CurrentTvlPositive) =>
        output.pool.validDays = SelectSeq(input.pool.poolDayData, SnapshotValid)

C20_NoValidDaysAllNull ==
    (MetricsDone /\ Len(SelectSeq(input.pool.poolDayData, SnapshotValid)) = 0) =>
        /\ output.pool.averageApr7d = Null
        /\ output.pool.averageVolume7d = Null
        /\ output.pool.aprStdDev = Null
        /\ output.pool.sharpeRatio = Null
        /\ output.pool.tvlTrend = Null
        /\ output.pool.volumeTrend = Null
        /\ output.pool.tvlSlope = Null
        /\ output.pool.volumeSlope = Null
        /\ (\/ Len(input.pool.poolDayData) = 0
            \/ ~NonNegative(ParseFloat(input.pool.poolDayData[1].feesUSD)))
               => output.pool.apr = Null

-----------------------------------------------------------------------------
(* Properties of the pool ranking (ScoringSpec) *)

ScoringDone == output.fn = "getBestPoolsWithScore"

\* The options of the call whose result is in output.
OptionsUsed == CallOptions(input, output.minTVL)

\* The pool of the input list that a returned pool was made from passes
\* the four filters.
PassedAllFilters(r, options) ==
    \E i \in 1..Len(input.pools) :
        /\ input.pools[i].id = r.id
        /\ (input.pools[i].apr = Null \/ RLeq(options.minAPR, input.pools[i].apr))
        /\ (input.pools[i].apr # Null \/ RLeq(options.minAPR, RInt(0)))
        /\ ParseFloat(input.pools[i].totalValueLockedUSD) # NaN
        /\ RLeq(options.minTVL, ParseFloat(input.pools[i].totalValueLockedUSD))
        /\ meetsAgeRequirement(input.pools[i], options)
        /\ isPreferredFeeTier(input.pools[i], options.preferredFeeTiers)
        /\ meetsCorrelationCriteria(input.pools[i], options)

\* Each returned pool passed the filters, and scores do not increase
\* along the returned list.
FilteredAndSorted ==
    /\ \A i \in 1..Len(output.pools) : PassedAllFilters(output.pools[i], OptionsUsed)
    /\ \A i \in 1..Len(output.pools) : \A j \in 1..Len(output.pools) :
           i < j => RLeq(output.pools[j].score, output.pools[i].score)

C14_RaisingMinTVLNeverAddsPools ==
    [][(ScoringDone /\ output'.fn = "getBestPoolsWithScore"
           /\ RLeq(output.minTVL, output'.minTVL))
        => Len(output'.pools) <= Len(output.pools)]_vars

\* A call returned pools and minTVL was raised after it to a value that
\* removes at least one of them.
C14_Witness ==
    /\ ScoringDone
    /\ output.minTVL = RInt(150)
    /\ Len(output.pools) >= 1
    /\ Len(BestPoolsWithScore(input.pools, CallOptions(input, RInt(0)))) > Len(output.pools)

SumOfWeights(w) ==
    RAdd(RAdd(RAdd(RAdd(w.aprWeight, w.tvlWeight), w.volatilityWeight),
              w.tvlTrendWeight), w.volumeTrendWeight)

\* C15: with correlationWeight = 0 and non-negative weights of sum at most
\* 1, the score of every returned pool is in [0, sum of the five weights].
C15_ScoreWithinWeights ==
    (ScoringDone /\ input.filters.correlationWeight = RInt(0)) =>
        \A i \in 1..Len(output.pools) :
            /\ RLeq(RInt(0), output.pools[i].score)
            /\ RLeq(output.pools[i].score, SumOfWeights(input.weights))

\* A returned pool has a score strictly inside the interval and another
\* has the highest score the weights allow for it.
C15_Witness ==
    /\ ScoringDone
    /\ input.filters.correlationWeight = RInt(0)
    /\ input.weights = DefaultWeights
    /\ \E i \in 1..Len(output.pools) :
           /\ RLess(RInt(0), output.pools[i].score)
           /\ RLess(output.pools[i].score, SumOfWeights(input.weights))
    /\ \E i \in 1..Len(output.pools) : \E j \in 1..Len(output.pools) :
           RLess(output.pools[i].score, output.pools[j].score)

-----------------------------------------------------------------------------
(* Properties of position sizing (SizingSpec) *)

\* C17: in score-weighted mode every returned position has a percentage of
\* at most maxPositionPercentage, the default of the tier when the option
\* is not given.
C17_ScoreWeightedWithinCap ==
    (output.fn = "calculatePositionSizes" /\ ~input.options.equalWeight) =>
        \A k \in 1..Len(output.positions) :
            RLeq(output.positions[k].percentage, MaxPercent(input.options))

SizingDone == output.fn = "calculatePositionSizes"

\* The minimum position of the tier of the options, medium without a preset.
TierMinimumUSD ==
    CASE input.options.strategy = "low" -> 500
      [] input.options.strategy = "high" -> 100
      [] OTHER -> 250

\* max(minPositionUSD, tier default minimum)
EffectiveMinimumUSD ==
    IF input.options.minPositionUSD > TierMinimumUSD
    THEN input.options.minPositionUSD ELSE TierMinimumUSD

\* The dollar value of position p is a number and at least the effective
\* minimum.
AtLeastMinimum(p) ==
    /\ ~IsNaN(p.targetValueUSD)
    /\ p.targetValueUSD.num >= EffectiveMinimumUSD * p.targetValueUSD.den

\* Some pool given has a score above 0.  No score of the model is negative,
\* so this is when the scores of the selected (highest-scoring) pools sum to
\* more than 0.
SomeScorePositive ==
    \E i \in 1..Len(input.pools) :
        input.pools[i].score # Null /\ input.pools[i].score.num > 0

BelowCapAfterFirstPass(k) ==
    /\ ~IsNaN(output.firstPass[k])
    /\ RLess(output.firstPass[k], MaxPercent(input.options))

\* C26: the percentages of the returned positions sum to at most 100 and
\* their targetValueUSD to at most totalInvestmentUSD; in score-weighted
\* mode, when a selected position is below the cap after the first pass,
\* the percentages before the minimum-size filter sum to exactly 100.
C26_SumsWithinTotal ==
    SizingDone =>
        LET n == Len(output.positions)
            percentage == [k \in 1..n |-> output.positions[k].percentage]
            value == [k \in 1..n |-> output.positions[k].targetValueUSD]
            m == Len(output.percentages)
        IN /\ RLeq(SumAt(percentage, 1..n), RInt(100))
           /\ RLeq(SumAt(value, 1..n), RInt(input.options.totalInvestmentUSD))
           /\ (\E k \in 1..m : BelowCapAfterFirstPass(k)) =>
                  /\ \A k \in 1..m : ~IsNaN(output.percentages[k])
                  /\ SumAt(output.percentages, 1..m) = RInt(100)

\* C30: in score-weighted mode a single candidate pool with a positive score
\* and a total investment of at least the minimum position value gets one
\* position with a percentage and a targetValueUSD that are numbers.
C30_SingleCandidateSized ==
    (/\ SizingDone
     /\ ~input.options.equalWeight
     /\ Len(input.pools) = 1
     /\ SomeScorePositive
     /\ input.options.totalInvestmentUSD >= EffectiveMinimumUSD) =>
        /\ Len(output.positions) = 1
        /\ output.positions[1].poolId = input.pools[1].id
        /\ ~IsNaN(output.positions[1].percentage)
        /\ ~IsNaN(output.positions[1].targetValueUSD)

-----------------------------------------------------------------------------
(* Properties of the rebalancing recommendations (RebalanceSpec) *)

RebalanceDone == output.fn = "generateRebalanceRecommendations"

\* The pool of the universe with the id of the k-th position has an apr
\* that is not null and is below 5.
HeldBelowFloor(k) ==
    \E i \in 1..Len(input.currentPools) :
        /\ input.currentPools[i].id = input.currentPositions[k].poolId
        /\ input.currentPools[i].apr # Null
        /\ input.currentPools[i].apr.num < 5 * input.currentPools[i].apr.den

\* An exit of the k-th position with priority 9 and target size 0.
ExitRecommended(k) ==
    \E a \in 1..Len(output.actions) :
        /\ output.actions[a].poolId = input.currentPositions[k].poolId
        /\ output.actions[a].currentSize = RInt(input.currentPositions[k].size)
        /\ output.actions[a].currentPriceRange = input.currentPositions[k].priceRange
        /\ output.actions[a].actionType = "exit_position"
        /\ output.actions[a].priority = 9
        /\ output.actions[a].targetSize = RInt(0)

\* C16: every held position whose pool is in the universe with a non-null
\* apr below 5 gets an exit_position action with priority 9 and targetSize
\* 0, whatever its correlation, price range, risk tier and threshold are.
C16_LowAprAlwaysExits ==
    RebalanceDone =>
        \A k \in 1..Len(input.currentPositions) :
            HeldBelowFloor(k) => ExitRecommended(k)

\* A position of non-zero size in a pool of apr 3 whose correlation is
\* below the threshold of the tier and whose range needs adjusting has
\* been analysed.
C16_Witness ==
    /\ RebalanceDone
    /\ \E k \in 1..Len(input.currentPositions) :
           /\ HeldBelowFloor(k)
           /\ input.currentPositions[k].size > 0
           /\ input.currentPositions[k].priceRange # Undefined
           /\ input.options.strategy = "low"
           /\ input.currentPools[1].correlation = Ratio(3, 10)
           /\ \E a \in 1..Len(output.actions) :
                  /\ output.actions[a].sizeChangePercent = -150
                  /\ output.actions[a].reasonCodes
                         = <<"range_inefficiency", "correlation_change", "apr_decline">>

\* The correlation threshold of the tier of the options, medium without a
\* preset.
TierCorrelationThreshold ==
    CASE input.options.strategy = "low" -> Ratio(7, 10)
      [] input.options.strategy = "high" -> RInt(0)
      [] OTHER -> Ratio(4, 10)

\* Pool p has a correlation, and it is below the threshold of the tier.
CorrelationTooLow(p) ==
    p.correlation # Undefined /\ RLess(p.correlation, TierCorrelationThreshold)

\* The k-th position is held in pool i of the universe.
HeldIn(k, i) == input.currentPools[i].id = input.currentPositions[k].poolId

InUniverse(k) == \E i \in 1..Len(input.currentPools) : HeldIn(k, i)

\* The size adjustment accumulated for the k-th position: -50 for a
\* correlation below the threshold, -100 for an apr below 5.
AccumulatedAdjustment(k) ==
    (IF \E i \in 1..Len(input.currentPools) :
            HeldIn(k, i) /\ CorrelationTooLow(input.currentPools[i])
     THEN -50 ELSE 0)
        + (IF HeldBelowFloor(k) THEN -100 ELSE 0)

\* A range adjustment was flagged for the k-th position.
RangeFlagged(k) ==
    /\ input.currentPositions[k].priceRange # Undefined
    /\ \E i \in 1..Len(input.currentPools) :
           /\ HeldIn(k, i)
           /\ needsRangeAdjustment(
                  input.currentPositions[k].priceRange,
                  calculateOptimalPriceRange(input.currentPools[i], RInt(1),
                                             input.options.strategy),
                  RInt(1), input.options.minActionThreshold)

\* The action type the order of resolution gives the k-th position.
ResolvedType(k) ==
    IF AccumulatedAdjustment(k) <= -100 THEN "exit_position"
    ELSE IF AccumulatedAdjustment(k) < 0 THEN "decrease_size"
    ELSE IF AccumulatedAdjustment(k) > 0 THEN "increase_size"
    ELSE IF RangeFlagged(k) THEN "adjust_range"
    ELSE "maintain"

\* The a-th action returned is about the k-th position.
ActionOf(a, k) ==
    /\ output.actions[a].actionType # "enter_position"
    /\ output.actions[a].poolId = input.currentPositions[k].poolId
    /\ output.actions[a].currentSize = RInt(input.currentPositions[k].size)
    /\ output.actions[a].currentPriceRange = input.currentPositions[k].priceRange

\* C22: for each held position whose pool is in the universe the action
\* type is exit_position for an accumulated size adjustment of at most -100,
\* else decrease_size below 0, else increase_size above 0, else adjust_range
\* if a range adjustment was flagged, else maintain; the position has an
\* action of that type in the list returned unless the type is maintain, and
\* no action of type maintain is returned.
C22_ActionTypeResolvedInOrder ==
    RebalanceDone =>
        /\ \A k \in 1..Len(input.currentPositions) :
               (InUniverse(k) /\ ResolvedType(k) # "maintain") =>
                   \E a \in 1..Len(output.actions) :
                       /\ ActionOf(a, k)
                       /\ output.actions[a].actionType = ResolvedType(k)
                       /\ output.actions[a].sizeChangePercent = AccumulatedAdjustment(k)
        /\ \A a \in 1..Len(output.actions) :
               /\ output.actions[a].actionType # "maintain"
               /\ output.actions[a].actionType # "enter_position" =>
                      \E k \in 1..Len(input.currentPositions) :
                          /\ ActionOf(a, k)
                          /\ InUniverse(k) =>
                                 output.actions[a].actionType = ResolvedType(k)

\* A position with a flagged range and a correlation below the threshold
\* (adjustment -50) got a decrease_size action, not adjust_range.
C22_Witness ==
    /\ RebalanceDone
    /\ \E k \in 1..Len(input.currentPositions) :
           /\ InUniverse(k)
           /\ RangeFlagged(k)
           /\ AccumulatedAdjustment(k) = -50
           /\ \E a \in 1..Len(output.actions) :
                  /\ ActionOf(a, k)
                  /\ output.actions[a].actionType = "decrease_size"

\* maxPositions - currentPositions.length, maxPositions being the number of
\* positions held when it is not given.
OpenSlots ==
    (IF input.options.maxPositions = 0 THEN Len(input.currentPositions)
     ELSE input.options.maxPositions) - Len(input.currentPositions)

\* The pools of the universe that are not held and pass the apr >= 5 and
\* correlation-threshold filters.
EligibleNotHeld ==
    {i \in 1..Len(input.currentPools) :
        /\ \A k \in 1..Len(input.currentPositions) : ~HeldIn(k, i)
        /\ input.currentPools[i].apr # Null
        /\ ~RLess(input.currentPools[i].apr, RInt(5))
        /\ ~CorrelationTooLow(input.currentPools[i])}

\* The pools that received an enter_position action.
Entered ==
    {i \in 1..Len(input.currentPools) :
        \E a \in 1..Len(output.actions) :
            /\ output.actions[a].actionType = "enter_position"
            /\ output.actions[a].poolId = input.currentPools[i].id}

\* C23: with availableLiquidity > 0 and open slots, the pools that receive
\* enter_position are the highest-scoring eligible pools not held, as many
\* as min(open slots, number of eligible pools not held).
C23_EntersTopEligible ==
    (RebalanceDone /\ input.options.availableLiquidity > 0 /\ OpenSlots > 0) =>
        /\ Entered \subseteq EligibleNotHeld
        /\ Cardinality(Entered) =
               (IF OpenSlots < Cardinality(EligibleNotHeld)
                THEN OpenSlots ELSE Cardinality(EligibleNotHeld))
        /\ \A i \in Entered : \A j \in EligibleNotHeld \ Entered :
               RLeq(Coalesce(input.currentPools[j].score),
                    Coalesce(input.currentPools[i].score))

-----------------------------------------------------------------------------
(* Properties of the correlation score (CorrelationSpec) *)

CorrelationDone == output.fn = "calculateTokenCorrelation"

\* The token id, in any spelling, is an address of the table of stable
\* tokens; of the table of major tokens that are not stable.
StableId(id) ==
    id \in {"0xa0b86991c6218b36c1d19d4a2e9eb0ce3606eb48",
            "0xA0b86991c6218b36c1d19D4a2e9Eb0cE3606eB48",
            "0xdac17f958d2ee523a2206206994597c13d831ec7"}

MajorOnlyId(id) == id = "0x2260fac5e5542a773aa44fbcfedf7c193bc2c599"

\* The score by first match.
ScoreByFirstMatch ==
    LET t0 == input.pool.token0
        t1 == input.pool.token1
    IN IF StableId(t0) /\ StableId(t1)
       THEN (IF input.options.preferStableCorrelation THEN RInt(1) ELSE Ratio(95, 100))
       ELSE IF StableId(t0) # StableId(t1)
       THEN (IF input.options.preferStableBase THEN Ratio(9, 10) ELSE Ratio(8, 10))
       ELSE IF MajorOnlyId(t0) \/ MajorOnlyId(t1) THEN Ratio(6, 10)
       ELSE IF input.options.avoidExoticPairs THEN Ratio(1, 10)
       ELSE Ratio(3, 10)

\* C21: calculateTokenCorrelation returns 0.95 for two stable tokens (1.0
\* with preferStableCorrelation), else 0.8 for exactly one stable token (0.9
\* with preferStableBase), else 0.6 for a major token, else 0.3 (0.1 with
\* avoidExoticPairs); the result is in [0, 1] and is a function of the two
\* token addresses and the three flags.
C21_ScoreByFirstMatch ==
    CorrelationDone =>
        /\ output.correlationScore = ScoreByFirstMatch
        /\ RLeq(RInt(0), output.correlationScore)
        /\ RLeq(output.correlationScore, RInt(1))

\* A pool of a stable token in its checksummed spelling and a major token
\* was scored 0.9 with preferStableBase set.
C21_Witness ==
    /\ CorrelationDone
    /\ input.pool.token0 = "0xA0b86991c6218b36c1d19D4a2e9Eb0cE3606eB48"
    /\ MajorOnlyId(input.pool.token1)
    /\ input.options.preferStableBase
    /\ output.correlationScore = Ratio(9, 10)

-----------------------------------------------------------------------------
(* Properties of overlapping refreshes *)

\* Refresh r has issued queries and has not finished.
InFlight(r) == refresh[r].pc \in {"awaitV3", "awaitV4"}

\* C24: for each tier at most one refresh is in flight at any time: a
\* refresh requested while an earlier refresh of the same tier has not
\* finished starts no second set of upstream queries.
C24_SingleFlightPerTier ==
    \A r1, r2 \in RefreshIds :
        (/\ InFlight(r1)
         /\ InFlight(r2)
         /\ refresh[r1].strategy = refresh[r2].strategy) => r1 = r2

\* Refresh r stores its entry in this step.
Stores(r) == ~refresh[r].stored /\ refresh'[r].stored

\* C27: when two refreshes of the same tier overlap, a refresh that started
\* earlier never stores over the entry of a refresh that started after it:
\* the entry that remains is that of the refresh that started later.
C27_LaterStartWins ==
    [][\A r1, r2 \in RefreshIds :
          (/\ Stores(r1)
           /\ refresh[r2].stored
           /\ refresh[r2].strategy = refresh[r1].strategy)
              => refresh[r2].seq <= refresh[r1].seq]_vars

-----------------------------------------------------------------------------
(* Properties of late results (LateSpec) *)

\* The list a race gave the refresh: that of the query when it resolved
\* first, none when it rejected or the timer won.
Kept(o) == IF o.kind = "ok" THEN o.pools ELSE <<>>

\* C28: once the timer of a source has won the race in a refresh, a result
\* of that source's query that arrives later is discarded: the entry the
\* refresh stores holds nothing of that source, and the arrival of the
\* result changes no cache entry.
C28_LateResultDiscarded ==
    [][\A r \in RefreshIds :
          /\ (Stores(r) /\ refresh'[r].out3 = TimeoutOutcome) =>
                 cachedPools'[refresh[r].strategy].pools = Kept(refresh'[r].out4)
          /\ (Stores(r) /\ refresh'[r].out4 = TimeoutOutcome) =>
                 cachedPools'[refresh[r].strategy].pools = Kept(refresh'[r].out3)
          /\ refresh'[r].late # refresh[r].late => cachedPools' = cachedPools]_vars

\* The v3 query of a refresh settled after its timer had won, and the
\* refresh stored the pools of v4 alone.
C28_Witness ==
    \E r \in RefreshIds :
        /\ refresh[r].stored
        /\ refresh[r].out3 = TimeoutOutcome
        /\ refresh[r].out4.kind = "ok"
        /\ 3 \in refresh[r].late
        /\ source[3] = "ok"
        /\ cachedPools[refresh[r].strategy].pools = SourceResult(4)

-----------------------------------------------------------------------------
(* Properties of getPoolSummary (SummarySpec) *)

\* C29: in the result of getPoolSummary the averageApr, the poolCount and
\* the topPools of a tier are taken from one and the same cache entry of
\* the tier: the averageApr reported is that of the entry whose pools are
\* counted and listed.
C29_SummaryFromOneEntry ==
    (output # NoValue /\ output.pc = "done") =>
        /\ output.poolCount = Len(output.poolsEntry.pools)
        /\ \A i \in 1..Len(output.topPools) :
               \E j \in 1..Len(output.poolsEntry.pools) :
                   output.poolsEntry.pools[j] = output.topPools[i]
        /\ output.averageApr = output.poolsEntry.averageApr

====
